---- MODULE Spec2Model ----
(***************************************************************************)
(* Verification model of the prediction-market pipeline:                   *)
(*   - historical reconciliation (hisbet.js = src/unnamed/part_005 and its *)
(*     genkit port src/unnamed/part_000): syncEpoch, upLine, downLine,     *)
(*     gapLine, the Redis epoch lock and the relational store;             *)
(*   - the trader (trader.js inside src/migration.js);                     *)
(*   - the Redis-stream consumer of src/realbet.js;                        *)
(*   - the live prediction aggregator (backtest service, src/README.md).   *)
(* Each subsystem has its own specification (SpecSync, SpecTrader,         *)
(* SpecIngest, SpecAgg); the variables of the other subsystems stay at     *)
(* their initial values.                                                   *)
(*                                                                         *)
(* Units: amounts are integers in units of 0.0005 BNB, prices in USD,      *)
(* times in the unit stated at each definition.                            *)
(***************************************************************************)
EXTENDS Integers, Sequences, FiniteSets, Bags, TLC

VARIABLES
  \* ---- reconciliation: environment
  impl,          \* "hisbet" (part_005) or "gk" (part_000): which port runs
  serverTz,      \* UTC offset (hours) of the zone the engine's process runs in
  world,         \* which chain history is being reconciled (see Worlds)
  faults,        \* number of injected environment faults so far
  expiries,      \* number of lock keys that expired by TTL so far
  \* ---- reconciliation: relational store
  round, hisbet, claim, multi_claim, finepoch, failed_epochs, realbet,
  \* ---- reconciliation: Redis
  lockKeys,      \* epochs E whose key processing:epoch:E exists
  roundUpdates,  \* epochs published on round_update_channel by the sync
  \* ---- reconciliation: the worker threads
  pc, ep, cur, tgt, queue, parsed, res,
  wrote,         \* history: this sync attempt committed its transaction
  fresh,         \* history: the epoch had no finalized marker at invocation
  overlap,       \* history: threads whose sync of the same epoch overlapped
  err,           \* the error the catch block of this sync attempt caught
  failedSyncs,   \* history: per epoch, the sync attempts that ended in the catch block
  \* ---- trader
  trCfg,         \* TRADE_DRY_RUN, TRADE_ENABLED, and whether a wallet is configured
  trNow,         \* Date.now() of the trader process, in ms
  placed,        \* state.placed: epochs already handled
  armed,         \* state.armed: epoch -> pre-armed parameters
  trLog,         \* rows of the trade_log table
  txs,           \* betBull/betBear transactions submitted by the trader
  ledger,        \* epochs for which the contract's ledger holds our bet
  trTasks,       \* the maybeTrade invocations that are at an await
  trTimers,      \* pending setTimeout(() => maybeTrade(signal), wait)
  trCount,       \* number of predictions, round updates, faults so far
  \* ---- stream consumer
  stream,        \* bet_stream: the entries appended by XADD; the id is the index
  lastDelivered, \* last-delivered id of the group bet_processors
  pel,           \* pending entries of the group: delivered, not acknowledged
  realbetLive,   \* the realbet table as the consumer writes it: rows [key, msg]
  batchBuffer,   \* batchBuffer of startStreamConsumer: ids of the buffered messages
  cpc,           \* where the consumer is: read, flush, ack, publish, down
  analysis,      \* ids of the messages published on analysis_channel
  dbMode,        \* "ok", "readonly" (statements fail), "down" (no connection)
  dbFails,       \* number of database failures so far
  crashes,       \* number of consumer crashes so far
  crashedAt,     \* where the consumer was when it crashed last
  \* ---- aggregator
  liveAgg,       \* the aggregator's per-epoch state
  aggNow,        \* Date.now() of the aggregator process, in ms
  timers,        \* due times of the pending timers that no variable refers to
  published,     \* the messages published on live_predictions, in order
  aggBets,       \* realbet table: up and down sums per epoch
  unstored,      \* bets published on instant_bet_channel, not yet in the table
  aggTasks,      \* message handlers of the aggregator that are at an await
  aggCount,      \* number of messages (round updates, bets) received so far
  aggEarly,      \* history: epochs whose round update came before the final point
  aggStale,      \* history: bets received for an epoch older than the current one
  \* ---- calculateMomentumPrediction on its own
  mom,           \* the arguments of a call and the prediction it returned
  \* ---- chain listener (BettingListenerService)
  wsState,          \* this.provider and its socket: "null", "connecting", "open", "closed"
  isConnected,      \* this.isConnected
  reconnectTimeout, \* this.reconnectTimeout: "null", "pending" or "fired" (a spent handle)
  heartbeatInterval,\* TRUE while the setInterval of startHeartbeat runs
  beatAge,          \* Date.now() - this.lastHeartbeat, in ms
  endpoint,         \* TRUE while the WebSocket endpoint accepts connections
  lsnCount,         \* history: disconnections noticed, connect() calls, outages
  \* ---- wall clock of the reconciliation engine
  ticks,            \* periods of 600 s that have passed since the engine started
  \* ---- getBlockRangeForEpoch on its own
  est               \* the store and the epoch of a call and the range it returned

syncVars == <<impl, serverTz, world, faults, expiries, round, hisbet, claim,
              multi_claim, finepoch, failed_epochs, realbet, lockKeys, roundUpdates,
              pc, ep, cur, tgt, queue, parsed, res, wrote, fresh, overlap,
              err, failedSyncs>>
traderVars == <<trCfg, trNow, placed, armed, trLog, txs, ledger, trTasks, trTimers,
                trCount>>
ingestVars == <<stream, lastDelivered, pel, realbetLive, batchBuffer, cpc, analysis,
                dbMode, dbFails, crashes, crashedAt>>
aggVars == <<liveAgg, aggNow, timers, published, aggBets, unstored, aggTasks, aggCount,
             aggEarly, aggStale>>
momVars == <<mom>>
lsnVars == <<wsState, isConnected, reconnectTimeout, heartbeatInterval, beatAge,
             endpoint, lsnCount>>
clockVars == <<ticks>>
estVars == <<est>>
vars == <<syncVars, traderVars, ingestVars, aggVars, momVars, lsnVars, clockVars,
          estVars>>

----------------------------------------------------------------------------
\* Generic helpers

Abs(x) == IF x < 0 THEN -x ELSE x

Max(S) == CHOOSE x \in S : \A y \in S : y <= x
Min(S) == CHOOSE x \in S : \A y \in S : x <= y

RECURSIVE SumAmount(_)
SumAmount(S) ==
  IF S = {} THEN 0
  ELSE LET x == CHOOSE y \in S : TRUE IN x.amount + SumAmount(S \ {x})


----------------------------------------------------------------------------
\* Bounds of the model

MaxEpoch == 5          \* epochs 1..MaxEpoch are closed on chain
MaxFaults == 1         \* environment faults (RPC, database, Redis) per run
MaxExpiries == 1       \* lock keys that outlive their TTL per run
MaxRetryCount == 4     \* the model stops retrying an epoch at this retry_count

\* Program constants of the reconciliation engine (0.0005 BNB units)
RETRY_MAX == 3
SEARCH_RANGE == 5
LOOK_BEHIND == 10
DEFAULT_BLOCKS_PER_EPOCH == 410
RANGE_SLACK == 50
MIN_ANCHOR_BETS == 5
AMOUNT_TOL == 2        \* 0.001 BNB
WHALE_EPOCHS == 5
WHALE_AMOUNT == 2000   \* 1 BNB
GAP_LIMIT == 100
REALBET_KEEP_S == 600
MIN_PRICE == 50
MAX_PRICE == 5000

Epochs == 1..MaxEpoch
SeedEpoch == MaxEpoch - 2       \* the epoch the operator seeded the store with
currentEpoch == MaxEpoch + 2    \* contract.currentEpoch()

Threads == {"up1", "up2", "down1", "gap1"}
Kind(t) == IF t \in {"up1", "up2"} THEN "up" ELSE IF t = "down1" THEN "down" ELSE "gap"

\* Chain histories: every epoch is regular except the one the world names.
\*   ok        all rounds regular
\*   badprice  round SeedEpoch+1 closed more than 20% off its lock price
\*   dust      round MaxEpoch has a late BetBull of 0.0005 BNB
\*   nodown    round SeedEpoch+1 has no BetBear (a one-sided round)
\*   late      the rounds below the seed took all their bets in the last 40
\*             blocks before the lock
\*   oldbad    round SeedEpoch-1 closed more than 20% off its lock price
\*             (a world of the single-worker runs)
\*   thin      every round took three bets only (a world of the runs on a
\*             store without anchor epochs)
Worlds == {"ok", "badprice", "dust", "nodown", "late"}

----------------------------------------------------------------------------
\* The chain (PancakeSwap prediction contract) as the engine reads it

\* An address as the chain returns it (checksum case); lower = normalised.
Addr(i) == [id |-> i, lower |-> FALSE]
ZERO_ADDRESS == [id |-> 0, lower |-> TRUE]

\* 400 blocks and 300 s per round; round e takes bets in blocks [400e, 400e+400)
BlockTimestamp(b) == (b * 3) \div 4

BetEvent(e, i) ==
  [epoch |-> e, dir |-> IF i % 2 = 1 THEN "UP" ELSE "DOWN",
   sender |-> Addr(1 + (i % 2)), amount |-> 2,
   blockNumber |-> 400 * e + 100 + 30 * i,
   transactionHash |-> [id |-> 10 * e + i, lower |-> FALSE]]

DustEvent(e) ==
  [epoch |-> e, dir |-> "UP", sender |-> Addr(1), amount |-> 1,
   blockNumber |-> 400 * e + 395,
   transactionHash |-> [id |-> 10 * e + 7, lower |-> FALSE]]

ChainBets(w, e) ==
  LET reg == {BetEvent(e, i) : i \in 1..6} IN
  IF w = "thin" THEN {BetEvent(e, i) : i \in 1..3}
  ELSE IF w = "dust" /\ e = MaxEpoch THEN reg \cup {DustEvent(e)}
  ELSE IF w = "nodown" /\ e = SeedEpoch + 1 THEN {b \in reg : b.dir = "UP"}
  ELSE IF w = "late" /\ e < SeedEpoch
  THEN {[BetEvent(e, i) EXCEPT !.blockNumber = 400 * e + 360 + 5 * i] : i \in 1..6}
  ELSE reg

\* Claim(sender, epoch, amount) events: round k-2 is claimed as round k opens.
ClaimEvent(k) ==
  [blockNumber |-> 400 * k + 5, sender |-> Addr(IF k % 2 = 0 THEN 2 ELSE 1),
   epoch |-> k - 2, amount |-> IF k % 2 = 0 THEN 2000 ELSE 2]

ChainClaims == {ClaimEvent(k) : k \in 3..(MaxEpoch + 2)}

\* contract.rounds(e)
ChainRound(w, e) ==
  LET bs == ChainBets(w, e) IN
  [epoch |-> e,
   startTimestamp |-> 300 * e, lockTimestamp |-> 300 * e + 300,
   closeTimestamp |-> 300 * e + 600,
   lockPrice |-> 250,
   closePrice |-> IF \/ w = "badprice" /\ e = SeedEpoch + 1
                     \/ w = "oldbad" /\ e = SeedEpoch - 1 THEN 500
                  ELSE IF e % 2 = 0 THEN 252 ELSE 248,
   totalAmount |-> SumAmount(bs),
   bullAmount |-> SumAmount({b \in bs : b.dir = "UP"}),
   bearAmount |-> SumAmount({b \in bs : b.dir = "DOWN"})]

----------------------------------------------------------------------------
\* Conversions

\* String.prototype.toLowerCase on a hex string
toLowerCase(x) == [x EXCEPT !.lower = TRUE]

\* normalizeAddress: the chain hands out well-formed addresses, so the format
\* checks pass and the address is lower-cased.
normalizeAddress(a) == toLowerCase(a)

\* toTaipeiTimeString: epoch seconds -> wall-clock string of UTC+8
toTaipeiTimeString(ts) == [wall |-> ts + 8 * 3600]

\* new Date(str).getTime()/1000 on a server whose zone is UTC+tz hours: the
\* string carries no zone, so it is read as server-local wall-clock time.
parseLocalTime(str, tz) == str.wall - tz * 3600

----------------------------------------------------------------------------
\* Queries on the store

EpochRows(h, e) == {r \in h : r.epoch = e}

\* A sync that never finds the finalized marker
epochAlreadyDone_never(f, e) == FALSE

\* SELECT 1 FROM finepoch WHERE epoch = $1
epochAlreadyDone(f, e) == e \in f

\* SELECT retry_count FROM failed_epochs WHERE epoch = $1 (0 when no row)
getFailCount(fe, e) ==
  IF \E r \in fe : r.epoch = e THEN (CHOOSE r \in fe : r.epoch = e).retry_count ELSE 0

\* INSERT ... ON CONFLICT (epoch) DO UPDATE SET stage, retry_count = retry_count + 1;
\* a new row takes the column default retry_count = 0.
logFailedEpoch(fe, e, stage) ==
  IF \E r \in fe : r.epoch = e
  THEN {IF r.epoch = e THEN [r EXCEPT !.stage = stage, !.retry_count = @ + 1] ELSE r
        : r \in fe}
  ELSE fe \cup {[epoch |-> e, stage |-> stage, retry_count |-> 0]}

\* epochs of [lo, hi] with more than 5 bet rows
AnchorEpochs(h, lo, hi) ==
  {e \in lo..hi : Cardinality(EpochRows(h, e)) > MIN_ANCHOR_BETS}

MaxBlock(h, e) == Max({r.block_number : r \in EpochRows(h, e)})
MinBlock(h, e) == Min({r.block_number : r \in EpochRows(h, e)})

getBlocksPerEpoch(h, referenceEpoch) ==
  LET eb == AnchorEpochs(h, referenceEpoch - LOOK_BEHIND, referenceEpoch)
      diffs == {MaxBlock(h, e) - MaxBlock(h, e - 1) : e \in {x \in eb : x - 1 \in eb}}
  IN IF diffs = {} THEN DEFAULT_BLOCKS_PER_EPOCH ELSE Max(diffs)

\* An estimator that prefers the backward anchor
getBlockRangeForEpoch_backFirst(h, e) ==
  LET nxt == AnchorEpochs(h, e + 1, e + SEARCH_RANGE)
      prv == AnchorEpochs(h, e - SEARCH_RANGE, e - 1)
  IN IF prv # {}
     THEN LET f == Max(prv)
              prevLast == MaxBlock(h, f)
              bpe == getBlocksPerEpoch(h, f)
          IN <<TRUE, prevLast - RANGE_SLACK, prevLast + bpe * (e - f) + RANGE_SLACK>>
     ELSE IF nxt # {}
     THEN LET f == Min(nxt)
              endBlock == MinBlock(h, f)
              bpe == getBlocksPerEpoch(h, f)
          IN <<TRUE, endBlock - bpe * (f - e) - RANGE_SLACK, endBlock + RANGE_SLACK>>
     ELSE <<FALSE, 0, 0>>

\* <<found, startBlock, endBlock>>
getBlockRangeForEpoch(h, e) ==
  LET nxt == AnchorEpochs(h, e + 1, e + SEARCH_RANGE)
      prv == AnchorEpochs(h, e - SEARCH_RANGE, e - 1)
  IN IF nxt # {}
     THEN LET f == Min(nxt)
              endBlock == MinBlock(h, f)
              bpe == getBlocksPerEpoch(h, f)
          IN <<TRUE, endBlock - bpe * (f - e) - RANGE_SLACK, endBlock + RANGE_SLACK>>
     ELSE IF prv # {}
     THEN LET f == Max(prv)
              prevLast == MaxBlock(h, f)
              bpe == getBlocksPerEpoch(h, f)
          IN <<TRUE, prevLast - RANGE_SLACK, prevLast + bpe * (e - f) + RANGE_SLACK>>
     ELSE <<FALSE, 0, 0>>

\* SELECT MIN(epoch), MAX(epoch), COUNT(DISTINCT epoch) FROM hisbet
getDataBoundaries(h) ==
  LET es == {r.epoch : r \in h} IN
  IF es = {} THEN [min_epoch |-> 0, max_epoch |-> 0, total_epochs |-> 0]
  ELSE [min_epoch |-> Min(es), max_epoch |-> Max(es), total_epochs |-> Cardinality(es)]

\* SELECT epoch + 1 FROM hisbet WHERE epoch + 1 NOT IN (...) AND epoch BETWEEN
\* dbMin AND dbMax - 1 ORDER BY epoch LIMIT 100: one result row per bet row.
RECURSIVE GapRows(_, _, _)
GapRows(h, e, dbMax) ==
  IF e > dbMax - 1 THEN <<>>
  ELSE LET n == Cardinality(EpochRows(h, e))
           hit == n > 0 /\ EpochRows(h, e + 1) = {}
       IN (IF hit THEN [i \in 1..n |-> e + 1] ELSE <<>>) \o GapRows(h, e + 1, dbMax)

MissingEpochs(h, dbMin, dbMax) ==
  LET rows == GapRows(h, dbMin, dbMax)
  IN SubSeq(rows, 1, IF Len(rows) > GAP_LIMIT THEN GAP_LIMIT ELSE Len(rows))

----------------------------------------------------------------------------
\* Fetch, validate, parse

\* contract.queryFilter over [startBlock, endBlock]; BetBull/BetBear are
\* filtered by epoch, Claim is not.
fetchEvents(w, e, startBlock, endBlock) ==
  LET inRange(x) == startBlock <= x.blockNumber /\ x.blockNumber <= endBlock IN
  [betbull |-> {b \in ChainBets(w, e) : b.dir = "UP" /\ inRange(b)},
   betbear |-> {b \in ChainBets(w, e) : b.dir = "DOWN" /\ inRange(b)},
   claim |-> {c \in ChainClaims : inRange(c)}]

NoEvents == [betbull |-> {}, betbear |-> {}, claim |-> {}]

\* An Error as the catch block sees it: the stage that threw and, for the bet
\* validation, the sides its message names ('缺少UP', '缺少DOWN').
NoError == [stage |-> "none", missing |-> {}]

MissingSides(events) ==
  {d \in {"UP", "DOWN"} : (IF d = "UP" THEN events.betbull ELSE events.betbear) = {}}

validateRoundDataFromChain(rd) ==
  /\ rd.startTimestamp > 0 /\ rd.lockTimestamp > 0 /\ rd.closeTimestamp > 0
  /\ rd.startTimestamp < rd.lockTimestamp
  /\ rd.lockTimestamp < rd.closeTimestamp
  /\ rd.lockPrice >= MIN_PRICE /\ rd.lockPrice <= MAX_PRICE
  /\ rd.closePrice >= MIN_PRICE /\ rd.closePrice <= MAX_PRICE
  /\ ~(Abs(rd.closePrice - rd.lockPrice) * 5 > rd.lockPrice)     \* > 20%
  /\ rd.totalAmount >= 0 /\ rd.bullAmount >= 0 /\ rd.bearAmount >= 0
  /\ ~(rd.totalAmount = 0 /\ rd.bullAmount = 0 /\ rd.bearAmount = 0)
  /\ ~(Abs(rd.totalAmount - (rd.bullAmount + rd.bearAmount)) > AMOUNT_TOL)

\* A bet validation without the two emptiness checks
validateBetEvents_noEmptyCheck(events) ==
  \A b \in events.betbull \cup events.betbear :
    normalizeAddress(b.sender) # ZERO_ADDRESS /\ b.amount > 0

validateBetEvents(events) ==
  /\ events.betbull # {}
  /\ events.betbear # {}
  /\ \A b \in events.betbull \cup events.betbear :
       normalizeAddress(b.sender) # ZERO_ADDRESS /\ b.amount > 0

validateClaimEvents(events, procEpoch) ==
  /\ events.claim # {}
  /\ \A c \in events.claim :
       /\ normalizeAddress(c.sender) # ZERO_ADDRESS
       /\ c.epoch > 0
       /\ procEpoch > c.epoch
       /\ c.amount > 0

\* payouts in hundredths; tot is recomputed as bull + bear
parseRoundData(rd) ==
  LET tot == rd.bullAmount + rd.bearAmount IN
  [epoch |-> rd.epoch,
   start_time |-> toTaipeiTimeString(rd.startTimestamp),
   lock_time |-> toTaipeiTimeString(rd.lockTimestamp),
   close_time |-> toTaipeiTimeString(rd.closeTimestamp),
   lock_price |-> rd.lockPrice, close_price |-> rd.closePrice,
   result |-> IF rd.closePrice > rd.lockPrice THEN "UP" ELSE "DOWN",
   total_bet_amount |-> tot,
   up_bet_amount |-> rd.bullAmount, down_bet_amount |-> rd.bearAmount,
   up_payout |-> IF rd.bullAmount > 0 THEN (97 * tot) \div rd.bullAmount ELSE 0,
   down_payout |-> IF rd.bearAmount > 0 THEN (97 * tot) \div rd.bearAmount ELSE 0]

parseBets(events) ==
  {[epoch |-> b.epoch,
    bet_time |-> toTaipeiTimeString(BlockTimestamp(b.blockNumber)),
    wallet_address |-> normalizeAddress(b.sender),
    direction |-> b.dir, amount |-> b.amount,
    block_number |-> b.blockNumber,
    tx_hash |-> toLowerCase(b.transactionHash)]
   : b \in events.betbull \cup events.betbear}

\* A parse that stores the processing epoch in both epoch columns
parseClaims_betEpochIsEpoch(events, pe) ==
  {[epoch |-> pe, block_number |-> c.blockNumber,
    wallet_address |-> normalizeAddress(c.sender),
    bet_epoch |-> pe, amount |-> c.amount] : c \in events.claim}

parseClaims(events, pe) ==
  {[epoch |-> pe, block_number |-> c.blockNumber,
    wallet_address |-> normalizeAddress(c.sender),
    bet_epoch |-> c.epoch, amount |-> c.amount] : c \in events.claim}

detectMultiClaims(claims, pe) ==
  LET ws == {c.wallet_address : c \in claims}
      of(w) == {c \in claims : c.wallet_address = w}
      n(w) == Cardinality({c.bet_epoch : c \in of(w)})
  IN {[epoch |-> pe, wallet_address |-> w, num_claimed_epochs |-> n(w),
       total_amount |-> SumAmount(of(w))]
      : w \in {x \in ws : n(x) >= WHALE_EPOCHS \/ SumAmount(of(x)) >= WHALE_AMOUNT}}

verifyRoundBetsStrict(rnd, bets) ==
  LET up == {b \in bets : b.direction = "UP"}
      dn == {b \in bets : b.direction = "DOWN"}
  IN /\ \A a, b \in bets : a.tx_hash = b.tx_hash => a = b
     /\ up # {} /\ dn # {}
     /\ ~(Abs(SumAmount(bets) - rnd.total_bet_amount) > AMOUNT_TOL)
     /\ ~(Abs(SumAmount(up) - rnd.up_bet_amount) > AMOUNT_TOL)
     /\ ~(Abs(SumAmount(dn) - rnd.down_bet_amount) > AMOUNT_TOL)

\* What syncEpoch holds in memory between verifyRoundBetsStrict and the write
NoParsed == [round |-> {}, bets |-> {}, claims |-> {}, mc |-> {}]

\* A sync that takes the blocks of the whole round when the estimator has no
\* anchor
Prepare_wholeRound(w, h, e, rpcOk) ==
  LET est0 == getBlockRangeForEpoch(h, e)
      rng == IF est0[1] THEN est0 ELSE <<TRUE, 400 * e - 50, 400 * e + 450>>
      events == IF rng[1] /\ rpcOk THEN fetchEvents(w, e, rng[2], rng[3]) ELSE NoEvents
      rd == ChainRound(w, e)
      rnd == parseRoundData(rd)
      bets == parseBets(events)
      claims == parseClaims(events, e)
      ok == /\ rng[1]
            /\ validateRoundDataFromChain(rd)
            /\ validateBetEvents(events)
            /\ validateClaimEvents(events, e)
            /\ verifyRoundBetsStrict(rnd, bets)
      stage == IF ~rng[1] THEN "range"
               ELSE IF ~validateRoundDataFromChain(rd) THEN "round"
               ELSE IF ~validateBetEvents(events) THEN "bets"
               ELSE IF ~validateClaimEvents(events, e) THEN "claims"
               ELSE IF ~verifyRoundBetsStrict(rnd, bets) THEN "verify"
               ELSE "none"
  IN [ok |-> ok, range |-> rng[1],
      error |-> [stage |-> stage,
                 missing |-> IF stage = "bets" THEN MissingSides(events) ELSE {}],
      data |-> IF ok THEN [round |-> {rnd}, bets |-> bets, claims |-> claims,
                           mc |-> detectMultiClaims(claims, e)]
               ELSE NoParsed]

\* fetchEventsForEpoch .. verifyRoundBetsStrict on the events of a range;
\* ok = FALSE when any stage threw, error = what the first such stage threw.
Prepare(w, h, e, rpcOk) ==
  LET rng == getBlockRangeForEpoch(h, e)
      events == IF rng[1] /\ rpcOk THEN fetchEvents(w, e, rng[2], rng[3]) ELSE NoEvents
      rd == ChainRound(w, e)
      rnd == parseRoundData(rd)
      bets == parseBets(events)
      claims == parseClaims(events, e)
      ok == /\ rng[1]
            /\ validateRoundDataFromChain(rd)
            /\ validateBetEvents(events)
            /\ validateClaimEvents(events, e)
            /\ verifyRoundBetsStrict(rnd, bets)
      stage == IF ~rng[1] THEN "range"
               ELSE IF ~validateRoundDataFromChain(rd) THEN "round"
               ELSE IF ~validateBetEvents(events) THEN "bets"
               ELSE IF ~validateClaimEvents(events, e) THEN "claims"
               ELSE IF ~verifyRoundBetsStrict(rnd, bets) THEN "verify"
               ELSE "none"
  IN [ok |-> ok, range |-> rng[1],
      error |-> [stage |-> stage,
                 missing |-> IF stage = "bets" THEN MissingSides(events) ELSE {}],
      data |-> IF ok THEN [round |-> {rnd}, bets |-> bets, claims |-> claims,
                           mc |-> detectMultiClaims(claims, e)]
               ELSE NoParsed]

----------------------------------------------------------------------------
\* The write transaction

\* INSERT INTO round ... ON CONFLICT (start_time, epoch) DO UPDATE SET prices,
\* result, amounts and payouts (lock_time and close_time keep the old values)
UpsertRound(rt, new) ==
  LET old == {r \in rt : r.epoch = new.epoch /\ r.start_time = new.start_time} IN
  (rt \ old) \cup
  (IF old = {} THEN {new}
   ELSE {[new EXCEPT !.lock_time = r.lock_time, !.close_time = r.close_time] : r \in old})

\* INSERT INTO hisbet ... ON CONFLICT (bet_time, tx_hash) DO NOTHING
InsertBets(h, bets, result) ==
  h \cup {[epoch |-> b.epoch, bet_time |-> b.bet_time,
           wallet_address |-> b.wallet_address, bet_direction |-> b.direction,
           bet_amount |-> b.amount, block_number |-> b.block_number,
           tx_hash |-> b.tx_hash,
           result |-> IF b.direction = result THEN "WIN" ELSE "LOSS"]
          : b \in {x \in bets : ~\E r \in h : r.bet_time = x.bet_time /\ r.tx_hash = x.tx_hash}}

\* INSERT INTO claim ... ON CONFLICT (block_number, wallet_address, bet_epoch) DO NOTHING
InsertClaims(ct, claims) ==
  ct \cup {c \in claims : ~\E r \in ct : /\ r.block_number = c.block_number
                                          /\ r.wallet_address = c.wallet_address
                                          /\ r.bet_epoch = c.bet_epoch}

\* INSERT INTO multi_claim ... ON CONFLICT (epoch, wallet_address) DO NOTHING
InsertMultiClaims(mt, mcs) ==
  mt \cup {m \in mcs : ~\E r \in mt : r.epoch = m.epoch /\ r.wallet_address = m.wallet_address}

\* Date.now()/1000 while the engine runs: 100 s into the current round when
\* it starts, later by the periods that have passed.
nowS == 300 * currentEpoch + 100 + REALBET_KEEP_S * ticks

\* DELETE FROM realbet WHERE epoch = $1, when now - ct > 600
PruneRealbet(rb, rnd, tz) ==
  IF nowS - parseLocalTime(rnd.close_time, tz) > REALBET_KEEP_S
  THEN {r \in rb : r.epoch # rnd.epoch} ELSE rb

\* SELECT checks of verifyDatabaseWrite
verifyDatabaseWrite(rt, h, f, e, bets) ==
  /\ \E r \in rt : r.epoch = e
  /\ Cardinality(EpochRows(h, e)) = Cardinality(bets)
  /\ e \in f

\* The store after the operator seeded SeedEpoch from the chain
SeedEvents == fetchEvents("ok", SeedEpoch, 400 * SeedEpoch - 50, 400 * SeedEpoch + 450)
SeedRound == parseRoundData(ChainRound("ok", SeedEpoch))
SeedClaims == parseClaims(SeedEvents, SeedEpoch)

\* Live rows the listener stored for the rounds around the seed
LiveRows ==
  {[epoch |-> e, tx_hash |-> toLowerCase(BetEvent(e, i).transactionHash)]
   : e \in {x \in Epochs : x >= SeedEpoch - 1}, i \in 1..2}

----------------------------------------------------------------------------
\* Reconciliation: initial state

Tables == <<round, hisbet, claim, multi_claim, finepoch, failed_epochs, realbet>>

SyncStore ==
  /\ round = {SeedRound}
  /\ hisbet = InsertBets({}, parseBets(SeedEvents), SeedRound.result)
  /\ claim = SeedClaims
  /\ multi_claim = detectMultiClaims(SeedClaims, SeedEpoch)
  /\ finepoch = {SeedEpoch}
  /\ failed_epochs = {}
  /\ realbet = LiveRows
  /\ lockKeys = {}
  /\ roundUpdates = {}
  /\ faults = 0 /\ expiries = 0
  /\ ep = [t \in Threads |-> 0]
  /\ cur = [t \in Threads |-> 0]
  /\ tgt = [t \in Threads |-> 0]
  /\ queue = [t \in Threads |-> <<>>]
  /\ parsed = [t \in Threads |-> NoParsed]
  /\ res = [t \in Threads |-> "none"]
  /\ wrote = [t \in Threads |-> FALSE]
  /\ fresh = [t \in Threads |-> FALSE]
  /\ overlap = [t \in Threads |-> {}]
  /\ err = [t \in Threads |-> NoError]
  /\ failedSyncs = [e \in Epochs |-> 0]

\* The engine is not running (the state of it in the other specifications)
SyncIdle ==
  /\ impl = "hisbet" /\ serverTz = 8 /\ world = "ok"
  /\ pc = [t \in Threads |-> "off"]
  /\ SyncStore

----------------------------------------------------------------------------
\* Reconciliation: syncEpoch / gk_sync_epoch_flow, one action per await

ActivePcs == {"sync", "lock", "fetch", "write", "release"}

\* The caller invokes syncEpoch(e).
Invoke(t, e) ==
  LET others == {u \in Threads \ {t} : pc[u] \in ActivePcs /\ ep[u] = e} IN
  /\ pc' = [pc EXCEPT ![t] = "sync"]
  /\ ep' = [ep EXCEPT ![t] = e]
  /\ res' = [res EXCEPT ![t] = "none"]
  /\ wrote' = [wrote EXCEPT ![t] = FALSE]
  /\ err' = [err EXCEPT ![t] = NoError]
  /\ fresh' = [fresh EXCEPT ![t] = ~epochAlreadyDone(finepoch, e)]
  /\ overlap' = [u \in Threads |-> IF u = t THEN others
                                   ELSE IF u \in others THEN overlap[u] \cup {t}
                                   ELSE overlap[u] \ {t}]

\* syncEpoch returns r to its caller, which goes on with its loop. The genkit
\* flows log a failed epoch (stage = the flow) when the result is not a
\* success, that is an error or 'locked'. When syncEpoch threw, the forward
\* and backward workers leave their pass, the gap worker goes to its next row.
Return(t, r, fe) ==
  /\ res' = [res EXCEPT ![t] = r]
  /\ failed_epochs' = IF impl = "gk" /\ r \in {"locked", "error"}
                      THEN logFailedEpoch(fe, ep[t], Kind(t)) ELSE fe
  /\ pc' = [pc EXCEPT ![t] = IF Kind(t) = "down" \/ (r = "threw" /\ Kind(t) = "up")
                             THEN "loop" ELSE "for"]
  /\ cur' = [cur EXCEPT ![t] = IF Kind(t) = "up" /\ r # "threw" THEN @ + 1 ELSE @]

\* catch: ROLLBACK, logFailedEpoch(epoch, error, 'sync'); the finally block
\* comes next.
Fail(t, error) ==
  /\ failed_epochs' = logFailedEpoch(failed_epochs, ep[t], "sync")
  /\ failedSyncs' = [failedSyncs EXCEPT ![ep[t]] = @ + 1]
  /\ err' = [err EXCEPT ![t] = error]
  /\ res' = [res EXCEPT ![t] = "error"]
  /\ pc' = [pc EXCEPT ![t] = "release"]

\* if (await epochAlreadyDone(epoch)) return {success: true, skipped: true}
SyncStart(t) ==
  /\ pc[t] = "sync"
  /\ IF epochAlreadyDone(finepoch, ep[t])
     THEN Return(t, "skipped", failed_epochs)
     ELSE /\ pc' = [pc EXCEPT ![t] = "lock"]
          /\ UNCHANGED <<res, failed_epochs, cur>>
  /\ UNCHANGED <<impl, serverTz, world, faults, expiries, round, hisbet, claim,
                 multi_claim, finepoch, realbet, lockKeys, roundUpdates,
                 ep, tgt, queue, parsed, wrote, fresh, overlap, err, failedSyncs>>

\* SET processing:epoch:E 'true' EX 300 NX
SyncLock(t) ==
  /\ pc[t] = "lock"
  /\ IF ep[t] \in lockKeys
     THEN /\ Return(t, "locked", failed_epochs)
          /\ lockKeys' = lockKeys
     ELSE /\ lockKeys' = lockKeys \cup {ep[t]}
          /\ pc' = [pc EXCEPT ![t] = "fetch"]
          /\ UNCHANGED <<res, failed_epochs, cur>>
  /\ UNCHANGED <<impl, serverTz, world, faults, expiries, round, hisbet, claim,
                 multi_claim, finepoch, realbet, roundUpdates,
                 ep, tgt, queue, parsed, wrote, fresh, overlap, err, failedSyncs>>

\* The TTL of a held key runs out while its holder is still working or after
\* its holder left without deleting it.
LockExpire(e) ==
  /\ e \in lockKeys
  /\ expiries < MaxExpiries
  /\ expiries' = expiries + 1
  /\ lockKeys' = lockKeys \ {e}
  /\ UNCHANGED <<impl, serverTz, world, faults, Tables, roundUpdates,
                 pc, ep, cur, tgt, queue, parsed, res, wrote, fresh, overlap,
                 err, failedSyncs>>

\* hisbet.js: pool.connect() sits before the try block; when it rejects,
\* syncEpoch throws to its caller and neither catch nor finally runs.
SyncConnectFail(t) ==
  /\ impl = "hisbet"
  /\ pc[t] = "fetch"
  /\ faults < MaxFaults
  /\ faults' = faults + 1
  /\ res' = [res EXCEPT ![t] = "threw"]
  /\ pc' = [pc EXCEPT ![t] = IF Kind(t) = "gap" THEN "for" ELSE "loop"]
  /\ UNCHANGED <<impl, serverTz, world, expiries, Tables, lockKeys, roundUpdates,
                 ep, cur, tgt, queue, parsed, wrote, fresh, overlap, err, failedSyncs>>

\* fetch, validate, parse, verifyRoundBetsStrict
FetchStep(t, rpcOk) ==
  LET p == Prepare(world, hisbet, ep[t], rpcOk) IN
  /\ pc[t] = "fetch"
  /\ IF p.ok
     THEN /\ parsed' = [parsed EXCEPT ![t] = p.data]
          /\ pc' = [pc EXCEPT ![t] = "write"]
          /\ UNCHANGED <<failed_epochs, res, err, failedSyncs>>
     ELSE /\ Fail(t, IF impl = "gk" /\ p.range /\ ~rpcOk
                     THEN [stage |-> "rpc", missing |-> {}] ELSE p.error)
          /\ parsed' = parsed
  /\ UNCHANGED <<impl, serverTz, world, expiries, round, hisbet, claim, multi_claim,
                 finepoch, realbet, lockKeys, roundUpdates, ep, cur, tgt, queue,
                 wrote, fresh, overlap>>

SyncFetch(t) == FetchStep(t, TRUE) /\ faults' = faults

\* queryFilter fails after its retries: hisbet.js goes on with empty event
\* lists, the genkit port rethrows; both end in the catch block.
SyncFetchRpcFault(t) ==
  /\ faults < MaxFaults
  /\ faults' = faults + 1
  /\ FetchStep(t, FALSE)

\* writeDataTransaction: BEGIN .. COMMIT
Commit(t) ==
  LET d == parsed[t]
      rnd == CHOOSE r \in d.round : TRUE
  IN /\ round' = UpsertRound(round, rnd)
     /\ hisbet' = InsertBets(hisbet, d.bets, rnd.result)
     /\ claim' = InsertClaims(claim, d.claims)
     /\ multi_claim' = InsertMultiClaims(multi_claim, d.mc)
     /\ realbet' = PruneRealbet(realbet, rnd, serverTz)
     /\ finepoch' = finepoch \cup {ep[t]}
     /\ wrote' = [wrote EXCEPT ![t] = TRUE]

\* verifyDatabaseWrite on the committed store, then return {success: true}
VerifyAfterCommit(t) ==
  IF verifyDatabaseWrite(round', hisbet', finepoch', ep[t], parsed[t].bets)
  THEN /\ res' = [res EXCEPT ![t] = "ok"]
       /\ pc' = [pc EXCEPT ![t] = "release"]
       /\ UNCHANGED <<failed_epochs, err, failedSyncs>>
  ELSE Fail(t, [stage |-> "dbverify", missing |-> {}])

\* writeDataTransaction with its publish, and verifyDatabaseWrite
SyncWrite(t) ==
  /\ pc[t] = "write"
  /\ Commit(t)
  /\ roundUpdates' = roundUpdates \cup {ep[t]}
  /\ VerifyAfterCommit(t)
  /\ UNCHANGED <<impl, serverTz, world, faults, expiries, lockKeys,
                 ep, cur, tgt, queue, parsed, fresh, overlap>>

\* A statement of the transaction (or the genkit port's connect) fails:
\* ROLLBACK, nothing is written.
SyncWriteDbFault(t) ==
  /\ pc[t] = "write"
  /\ faults < MaxFaults
  /\ faults' = faults + 1
  /\ Fail(t, [stage |-> "db", missing |-> {}])
  /\ UNCHANGED <<impl, serverTz, world, expiries, round, hisbet, claim, multi_claim,
                 finepoch, realbet, lockKeys, roundUpdates, ep, cur, tgt, queue,
                 parsed, wrote, fresh, overlap>>

\* hisbet.js: the connection drops inside the transaction, so the statement
\* fails and the ROLLBACK of the catch block fails too: logFailedEpoch is not
\* reached, the finally block runs and the error goes to the caller.
SyncRollbackFault(t) ==
  /\ impl = "hisbet"
  /\ pc[t] = "write"
  /\ faults < MaxFaults
  /\ faults' = faults + 1
  /\ res' = [res EXCEPT ![t] = "threw"]
  /\ pc' = [pc EXCEPT ![t] = "release"]
  /\ UNCHANGED <<impl, serverTz, world, expiries, Tables, lockKeys, roundUpdates,
                 ep, cur, tgt, queue, parsed, wrote, fresh, overlap, err, failedSyncs>>

\* redisPublisher.publish fails after COMMIT: hisbet.js swallows the error
\* and goes on to the verification, the genkit port runs ROLLBACK (a no-op by
\* then) and rethrows.
SyncWritePublishFault(t) ==
  /\ pc[t] = "write"
  /\ faults < MaxFaults
  /\ faults' = faults + 1
  /\ Commit(t)
  /\ IF impl = "hisbet" THEN VerifyAfterCommit(t)
     ELSE Fail(t, [stage |-> "publish", missing |-> {}])
  /\ UNCHANGED <<impl, serverTz, world, expiries, lockKeys, roundUpdates,
                 ep, cur, tgt, queue, parsed, fresh, overlap>>

\* The transaction commits and publishes, then a query of verifyDatabaseWrite
\* fails.
SyncVerifyDbFault(t) ==
  /\ pc[t] = "write"
  /\ faults < MaxFaults
  /\ faults' = faults + 1
  /\ Commit(t)
  /\ roundUpdates' = roundUpdates \cup {ep[t]}
  /\ Fail(t, [stage |-> "db", missing |-> {}])
  /\ UNCHANGED <<impl, serverTz, world, expiries, lockKeys,
                 ep, cur, tgt, queue, parsed, fresh, overlap>>

\* finally: client.release(); DEL processing:epoch:E; then the return
SyncRelease(t) ==
  /\ pc[t] = "release"
  /\ lockKeys' = lockKeys \ {ep[t]}
  /\ parsed' = [parsed EXCEPT ![t] = NoParsed]
  /\ Return(t, res[t], failed_epochs)
  /\ UNCHANGED <<impl, serverTz, world, faults, expiries, round, hisbet, claim,
                 multi_claim, finepoch, realbet, roundUpdates,
                 ep, tgt, queue, wrote, fresh, overlap, err, failedSyncs>>

----------------------------------------------------------------------------
\* Reconciliation: the three worker loops

\* A forward pass whose target is the current epoch itself
UpStart_noLag(t) ==
  LET target == currentEpoch
      dbMax == getDataBoundaries(hisbet).max_epoch
  IN /\ Kind(t) = "up" /\ pc[t] = "loop"
     /\ dbMax < target
     /\ cur' = [cur EXCEPT ![t] = dbMax + 1]
     /\ tgt' = [tgt EXCEPT ![t] = target]
     /\ pc' = [pc EXCEPT ![t] = "for"]
     /\ UNCHANGED <<impl, serverTz, world, faults, expiries, Tables, lockKeys,
                    roundUpdates, ep, queue, parsed, res, wrote, fresh, overlap,
                    err, failedSyncs>>

\* upLine / gk_up_line_flow: one pass of the while loop up to the for loop.
\* (When dbMax >= target the loop sleeps a minute and looks again.)
UpStart(t) ==
  LET target == currentEpoch - 2
      dbMax == getDataBoundaries(hisbet).max_epoch
  IN /\ Kind(t) = "up" /\ pc[t] = "loop"
     /\ dbMax < target
     /\ cur' = [cur EXCEPT ![t] = dbMax + 1]
     /\ tgt' = [tgt EXCEPT ![t] = target]
     /\ pc' = [pc EXCEPT ![t] = "for"]
     /\ UNCHANGED <<impl, serverTz, world, faults, expiries, Tables, lockKeys,
                    roundUpdates, ep, queue, parsed, res, wrote, fresh, overlap,
                    err, failedSyncs>>

\* One iteration of the for loop. hisbet.js checks epochAlreadyDone first;
\* the genkit flow has no such check. Both skip an epoch at RETRY_MAX.
UpFor(t) ==
  /\ Kind(t) = "up" /\ pc[t] = "for"
  /\ IF cur[t] > tgt[t]
     THEN /\ pc' = [pc EXCEPT ![t] = "loop"]
          /\ UNCHANGED <<cur, ep, res, wrote, fresh, overlap, err>>
     ELSE IF \/ impl = "hisbet" /\ epochAlreadyDone(finepoch, cur[t])
             \/ getFailCount(failed_epochs, cur[t]) >= RETRY_MAX
     THEN /\ cur' = [cur EXCEPT ![t] = @ + 1]
          /\ UNCHANGED <<pc, ep, res, wrote, fresh, overlap, err>>
     ELSE /\ Invoke(t, cur[t])
          /\ cur' = cur
  /\ UNCHANGED <<impl, serverTz, world, faults, expiries, Tables, lockKeys,
                 roundUpdates, tgt, queue, parsed, failedSyncs>>

\* downLine / gk_down_line_flow: one pass of the while loop. Every branch
\* but the last one sleeps or continues without changing anything.
DownStart(t) ==
  LET dbMin == getDataBoundaries(hisbet).min_epoch
      target == dbMin - 1
  IN /\ Kind(t) = "down" /\ pc[t] = "loop"
     /\ dbMin # 0
     /\ target >= 1
     /\ ~epochAlreadyDone(finepoch, target)
     /\ getFailCount(failed_epochs, target) < RETRY_MAX
     /\ Invoke(t, target)
     /\ UNCHANGED <<impl, serverTz, world, faults, expiries, Tables, lockKeys,
                    roundUpdates, cur, tgt, queue, parsed, failedSyncs>>

\* gapLine / gk_gap_line_flow: the scan for missing epochs
GapStart(t) ==
  LET b == getDataBoundaries(hisbet) IN
  /\ Kind(t) = "gap" /\ pc[t] = "loop"
  /\ b.min_epoch # 0 /\ b.max_epoch # 0
  /\ b.total_epochs < b.max_epoch - b.min_epoch + 1
  /\ queue' = [queue EXCEPT ![t] = MissingEpochs(hisbet, b.min_epoch, b.max_epoch)]
  /\ pc' = [pc EXCEPT ![t] = "for"]
  /\ UNCHANGED <<impl, serverTz, world, faults, expiries, Tables, lockKeys,
                 roundUpdates, ep, cur, tgt, parsed, res, wrote, fresh, overlap,
                 err, failedSyncs>>

\* One row of the scan result. Only the genkit flow looks at the fail count.
GapFor(t) ==
  /\ Kind(t) = "gap" /\ pc[t] = "for"
  /\ IF queue[t] = <<>>
     THEN /\ pc' = [pc EXCEPT ![t] = "loop"]
          /\ UNCHANGED <<queue, ep, res, wrote, fresh, overlap, err>>
     ELSE IF impl = "gk" /\ getFailCount(failed_epochs, Head(queue[t])) >= RETRY_MAX
     THEN /\ queue' = [queue EXCEPT ![t] = Tail(@)]
          /\ UNCHANGED <<pc, ep, res, wrote, fresh, overlap, err>>
     ELSE /\ getFailCount(failed_epochs, Head(queue[t])) < MaxRetryCount
          /\ Invoke(t, Head(queue[t]))
          /\ queue' = [queue EXCEPT ![t] = Tail(@)]
  /\ UNCHANGED <<impl, serverTz, world, faults, expiries, Tables, lockKeys,
                 roundUpdates, cur, tgt, parsed, failedSyncs>>

----------------------------------------------------------------------------
\* Initial values of the other subsystems (placeholders refined below)

\* ---- trader (trader.js inside src/migration.js): state after start-up
TrEpochs == {1, 2}
Slots == {"s1", "s2"}     \* as many maybeTrade invocations may be at an await
NoArm == [prediction |-> "", ts |-> 0, nonce |-> -1]

TraderState ==
  /\ trNow = 0 /\ placed = {}
  /\ armed = [e \in TrEpochs |-> NoArm]
  /\ trLog = EmptyBag /\ txs = {} /\ ledger = {}
  /\ trTasks = EmptyBag
  /\ trTimers = EmptyBag
  /\ trCount = [signals |-> 0, updates |-> 0, faults |-> 0]

\* The defaults of the environment: dry run, not enabled; no private key.
TraderIdle ==
  /\ trCfg = [dry_run |-> TRUE, enabled |-> FALSE, wallet |-> FALSE]
  /\ TraderState

\* ---- stream consumer (src/realbet.js): state at start-up
IngestIdle ==
  /\ stream = <<>> /\ lastDelivered = 0 /\ pel = {} /\ realbetLive = {}
  /\ batchBuffer = <<>> /\ cpc = "read" /\ analysis = {}
  /\ dbMode = "ok" /\ dbFails = 0 /\ crashes = 0 /\ crashedAt = "none"

\* ---- aggregator (backtest service, src/README.md): state at start-up
AggEpochs == {1, 2}
NoTimer == [due |-> -1, pending |-> FALSE]

\* The object resetLiveAgg builds; epoch 0 stands for null, lastUp = -1 for
\* lastUpRatio = null (the ratio is kept as lastUp / lastTotal).
\* histRows = <<>> and avgHistVolume = 0 stand for null.
resetLiveAgg(epoch) ==
  [epoch |-> epoch, up |-> 0, down |-> 0, total |-> 0, lastPublishTs |-> 0,
   lastUp |-> -1, lastTotal |-> 0, lastVolumeBucket |-> "none", version |-> 0,
   histRows |-> <<>>, avgHistVolume |-> 0, finalTimer |-> NoTimer]

\* Date.now() when the service starts.
AggStartMs == 10000

AggIdle ==
  /\ liveAgg = resetLiveAgg(0) /\ aggNow = AggStartMs /\ timers = EmptyBag /\ published = <<>>
  /\ aggBets = [e \in AggEpochs |-> [up |-> 0, down |-> 0]]
  /\ unstored = [e \in AggEpochs |-> [up |-> 0, down |-> 0]]
  /\ aggTasks = EmptyBag
  /\ aggCount = 0 /\ aggEarly = {} /\ aggStale = 0

\* ---- calculateMomentumPrediction: no call made
NoCall == [historicalData |-> <<>>, up |-> 0, total |-> 0, prediction |-> "none"]
MomIdle == mom = NoCall

\* The listener as its constructor leaves it, the endpoint reachable.
NoCounts == [disconnections |-> 0, connects |-> 0, outages |-> 0]
LsnIdle ==
  /\ wsState = "null" /\ isConnected = FALSE /\ reconnectTimeout = "null"
  /\ heartbeatInterval = FALSE /\ beatAge = 0 /\ endpoint = TRUE
  /\ lsnCount = NoCounts

\* The clock when the engine starts; no call of the estimator on its own.
NoRange == <<FALSE, 0, 0>>
ClockIdle == ticks = 0 /\ est = [hisbet |-> {}, epoch |-> 0, range |-> NoRange, done |-> FALSE]

----------------------------------------------------------------------------
\* Specification of the reconciliation engine

\* What runs where. The workers of one process touch disjoint epochs (the
\* forward worker above the stored range, the gap worker inside it, the
\* backward worker below it), so they are explored in separate deployments;
\* the first deployment is the forward workers of two processes. The server
\* zone only matters for rounds that closed more than 600 s ago, which only
\* the backward worker reaches, and the irregular rounds of the worlds lie
\* above the seed.
Scenarios ==
  {[d |-> {"up1", "up2"}, w |-> w, tz |-> 8] : w \in {"ok", "badprice"}}
  \cup {[d |-> {"up1", "gap1"}, w |-> w, tz |-> 8] : w \in Worlds}
  \cup {[d |-> {"down1"}, w |-> "ok", tz |-> z] : z \in {0, 8}}
  \cup {[d |-> {"down1"}, w |-> "late", tz |-> 8]}

InitSync ==
  /\ impl \in {"hisbet", "gk"}
  /\ \E s \in Scenarios :
       /\ world = s.w
       /\ serverTz = s.tz
       /\ pc = [t \in Threads |-> IF t \in s.d THEN "loop" ELSE "off"]
  /\ SyncStore
  /\ TraderIdle /\ IngestIdle /\ AggIdle /\ MomIdle /\ LsnIdle /\ ClockIdle

\* The engine leaves the other subsystems alone.
SyncOnly == UNCHANGED <<traderVars, ingestVars, aggVars, momVars, lsnVars, clockVars, estVars>>

NextSync ==
  \/ \E t \in Threads : UpStart(t) /\ SyncOnly
  \/ \E t \in Threads : UpFor(t) /\ SyncOnly
  \/ \E t \in Threads : DownStart(t) /\ SyncOnly
  \/ \E t \in Threads : GapStart(t) /\ SyncOnly
  \/ \E t \in Threads : GapFor(t) /\ SyncOnly
  \/ \E t \in Threads : SyncStart(t) /\ SyncOnly
  \/ \E t \in Threads : SyncLock(t) /\ SyncOnly
  \/ \E t \in Threads : SyncConnectFail(t) /\ SyncOnly
  \/ \E t \in Threads : SyncFetch(t) /\ SyncOnly
  \/ \E t \in Threads : SyncFetchRpcFault(t) /\ SyncOnly
  \/ \E t \in Threads : SyncWrite(t) /\ SyncOnly
  \/ \E t \in Threads : SyncWriteDbFault(t) /\ SyncOnly
  \/ \E t \in Threads : SyncRollbackFault(t) /\ SyncOnly
  \/ \E t \in Threads : SyncWritePublishFault(t) /\ SyncOnly
  \/ \E t \in Threads : SyncVerifyDbFault(t) /\ SyncOnly
  \/ \E t \in Threads : SyncRelease(t) /\ SyncOnly
  \/ \E e \in Epochs : LockExpire(e) /\ SyncOnly

SpecSync == InitSync /\ [][NextSync]_vars

\* One worker on its own, without faults, with the wall clock running:
\* Date.now() grows while the worker loops, in periods of REALBET_KEEP_S
\* seconds.
MaxTicks == 1

Tick ==
  /\ ticks < MaxTicks
  /\ ticks' = ticks + 1
  /\ UNCHANGED <<syncVars, traderVars, ingestVars, aggVars, momVars, lsnVars, estVars>>

WorkerScenarios ==
  {s \in Scenarios : s.d = {"down1"}}
  \cup {[d |-> {"down1"}, w |-> "oldbad", tz |-> 8], [d |-> {"up1"}, w |-> "ok", tz |-> 8]}

InitWorker ==
  /\ impl \in {"hisbet", "gk"}
  /\ \E s \in WorkerScenarios :
       /\ world = s.w
       /\ serverTz = s.tz
       /\ pc = [t \in Threads |-> IF t \in s.d THEN "loop" ELSE "off"]
  /\ SyncStore
  /\ TraderIdle /\ IngestIdle /\ AggIdle /\ MomIdle /\ LsnIdle /\ ClockIdle

NextWorker ==
  \/ \E t \in Threads : UpStart(t) /\ SyncOnly
  \/ \E t \in Threads : UpFor(t) /\ SyncOnly
  \/ \E t \in Threads : DownStart(t) /\ SyncOnly
  \/ \E t \in Threads : SyncStart(t) /\ SyncOnly
  \/ \E t \in Threads : SyncLock(t) /\ SyncOnly
  \/ \E t \in Threads : SyncFetch(t) /\ SyncOnly
  \/ \E t \in Threads : SyncWrite(t) /\ SyncOnly
  \/ \E t \in Threads : SyncRelease(t) /\ SyncOnly
  \/ Tick

\* Every sleep of the worker ends and every await of a sync returns; the
\* clock keeps running.  The weak fairness of SyncFetch is written out: the
\* step is enabled exactly when a worker is at the fetch, and it is the only
\* step that takes a worker away from there.
AtFetch == \E t \in Threads : pc[t] = "fetch"
LeavesFetch == \E t \in Threads : pc[t] = "fetch" /\ pc'[t] # "fetch"

WorkerFairness ==
  /\ WF_vars(\E t \in Threads : (UpStart(t) \/ UpFor(t) \/ DownStart(t)) /\ SyncOnly)
  /\ WF_vars(\E t \in Threads :
               (SyncStart(t) \/ SyncLock(t) \/ SyncWrite(t) \/ SyncRelease(t)) /\ SyncOnly)
  /\ ([]<>~AtFetch \/ []<><<LeavesFetch>>_vars)
  /\ WF_vars(Tick)

SpecWorker == InitWorker /\ [][NextWorker]_vars /\ WorkerFairness

\* The gap worker on its own, without faults, on a store that holds the epochs
\* of one of the sets below: each has epochs missing between its lowest and
\* its highest.
GapStores ==
  {S \in SUBSET Epochs : S # {} /\ \E e \in Epochs \ S : Min(S) < e /\ e < Max(S)}

StoredEvents(e) == fetchEvents("ok", e, 400 * e - 50, 400 * e + 450)
StoredRound(e) == parseRoundData(ChainRound("ok", e))

InitGap ==
  /\ impl \in {"hisbet", "gk"} /\ serverTz = 8 /\ world = "ok"
  /\ pc = [t \in Threads |-> IF t = "gap1" THEN "loop" ELSE "off"]
  /\ \E S \in GapStores :
       /\ round = {StoredRound(e) : e \in S}
       /\ hisbet = UNION {InsertBets({}, parseBets(StoredEvents(e)), StoredRound(e).result)
                          : e \in S}
       /\ claim = UNION {parseClaims(StoredEvents(e), e) : e \in S}
       /\ multi_claim = UNION {detectMultiClaims(parseClaims(StoredEvents(e), e), e)
                               : e \in S}
       /\ finepoch = S
  /\ failed_epochs = {}
  /\ realbet = {}
  /\ lockKeys = {}
  /\ roundUpdates = {}
  /\ faults = 0 /\ expiries = 0
  /\ ep = [t \in Threads |-> 0]
  /\ cur = [t \in Threads |-> 0]
  /\ tgt = [t \in Threads |-> 0]
  /\ queue = [t \in Threads |-> <<>>]
  /\ parsed = [t \in Threads |-> NoParsed]
  /\ res = [t \in Threads |-> "none"]
  /\ wrote = [t \in Threads |-> FALSE]
  /\ fresh = [t \in Threads |-> FALSE]
  /\ overlap = [t \in Threads |-> {}]
  /\ err = [t \in Threads |-> NoError]
  /\ failedSyncs = [e \in Epochs |-> 0]
  /\ TraderIdle /\ IngestIdle /\ AggIdle /\ MomIdle /\ LsnIdle /\ ClockIdle

NextGap ==
  \/ \E t \in Threads : GapStart(t) /\ SyncOnly
  \/ \E t \in Threads : GapFor(t) /\ SyncOnly
  \/ \E t \in Threads : SyncStart(t) /\ SyncOnly
  \/ \E t \in Threads : SyncLock(t) /\ SyncOnly
  \/ \E t \in Threads : SyncFetch(t) /\ SyncOnly
  \/ \E t \in Threads : SyncWrite(t) /\ SyncOnly
  \/ \E t \in Threads : SyncRelease(t) /\ SyncOnly

SpecGap == InitGap /\ [][NextGap]_vars

\* The forward and the backward worker of one process, without faults, on a
\* store without an epoch of more than 5 bets: an empty one, or the seed of
\* a chain whose rounds took three bets each.
ThinEvents == fetchEvents("thin", SeedEpoch, 400 * SeedEpoch - 50, 400 * SeedEpoch + 450)
ThinRound == parseRoundData(ChainRound("thin", SeedEpoch))

InitNoAnchor ==
  /\ impl \in {"hisbet", "gk"}
  /\ serverTz = 8
  /\ \E d \in {{"up1"}, {"up1", "down1"}} :
       pc = [t \in Threads |-> IF t \in d THEN "loop" ELSE "off"]
  /\ \/ /\ world = "ok"
        /\ round = {} /\ hisbet = {} /\ claim = {} /\ multi_claim = {}
        /\ finepoch = {} /\ realbet = {}
     \/ /\ world = "thin"
        /\ round = {ThinRound}
        /\ hisbet = InsertBets({}, parseBets(ThinEvents), ThinRound.result)
        /\ claim = parseClaims(ThinEvents, SeedEpoch)
        /\ multi_claim = detectMultiClaims(parseClaims(ThinEvents, SeedEpoch), SeedEpoch)
        /\ finepoch = {SeedEpoch}
        /\ realbet = LiveRows
  /\ failed_epochs = {}
  /\ lockKeys = {}
  /\ roundUpdates = {}
  /\ faults = 0 /\ expiries = 0
  /\ ep = [t \in Threads |-> 0]
  /\ cur = [t \in Threads |-> 0]
  /\ tgt = [t \in Threads |-> 0]
  /\ queue = [t \in Threads |-> <<>>]
  /\ parsed = [t \in Threads |-> NoParsed]
  /\ res = [t \in Threads |-> "none"]
  /\ wrote = [t \in Threads |-> FALSE]
  /\ fresh = [t \in Threads |-> FALSE]
  /\ overlap = [t \in Threads |-> {}]
  /\ err = [t \in Threads |-> NoError]
  /\ failedSyncs = [e \in Epochs |-> 0]
  /\ TraderIdle /\ IngestIdle /\ AggIdle /\ MomIdle /\ LsnIdle /\ ClockIdle

NextNoAnchor ==
  \/ \E t \in Threads : UpStart(t) /\ SyncOnly
  \/ \E t \in Threads : UpFor(t) /\ SyncOnly
  \/ \E t \in Threads : DownStart(t) /\ SyncOnly
  \/ \E t \in Threads : SyncStart(t) /\ SyncOnly
  \/ \E t \in Threads : SyncLock(t) /\ SyncOnly
  \/ \E t \in Threads : SyncFetch(t) /\ SyncOnly
  \/ \E t \in Threads : SyncRelease(t) /\ SyncOnly

SpecNoAnchor == InitNoAnchor /\ [][NextNoAnchor]_vars

----------------------------------------------------------------------------
\* getBlockRangeForEpoch(epoch) on its own: the store is drawn from the
\* stores below, the call returns the range (or throws: found = FALSE).

\* Per epoch the store holds no row, the first three bets or all six; the
\* rounds below the seed are regular or took their bets late.
EstWorlds == {"ok", "late"}

FullRows(w, e) ==
  InsertBets({}, parseBets(fetchEvents(w, e, 400 * e - 50, 400 * e + 450)),
             parseRoundData(ChainRound(w, e)).result)

SomeRows(w, e, n) ==
  {r \in FullRows(w, e) :
     Cardinality({q \in FullRows(w, e) : q.block_number <= r.block_number}) <= n}

EstStores ==
  {UNION {SomeRows(w, e, f[e]) : e \in Epochs} : w \in EstWorlds, f \in [Epochs -> {0, 3, 6}]}

InitRange ==
  /\ SyncIdle /\ TraderIdle /\ IngestIdle /\ AggIdle /\ MomIdle /\ LsnIdle
  /\ ticks = 0
  /\ \E h \in EstStores, e \in Epochs :
       est = [hisbet |-> h, epoch |-> e, range |-> NoRange, done |-> FALSE]

RangeCall ==
  /\ ~est.done
  /\ est' = [est EXCEPT !.range = getBlockRangeForEpoch(est.hisbet, est.epoch),
                        !.done = TRUE]

NextRange == RangeCall /\ UNCHANGED <<syncVars, traderVars, ingestVars, aggVars, momVars,
                                      lsnVars, clockVars>>

SpecRange == InitRange /\ [][NextRange]_vars

----------------------------------------------------------------------------
\* Properties of the reconciliation engine

\* A thread is between lock acquisition and lock release of epoch e.
InFlight(t, e) == pc[t] \in {"fetch", "write", "release"} /\ ep[t] = e

\* C1: for every epoch, at most one per-epoch sync is between lock
\* acquisition and lock release at any time, also when a sync outlives the
\* 300 s TTL of its key.
C1_OneSyncInFlight ==
  \A e \in Epochs : Cardinality({t \in Threads : InFlight(t, e)}) <= 1

\* C6: a sync attempt that ended in failure has committed nothing: no round,
\* bet, claim, multi-claim row and no finalized marker comes from it.
C6_FailedAttemptWritesNothing ==
  \A t \in Threads : res[t] = "error" => ~wrote[t]

\* C7: every epoch with a finalized marker has a round row, and as many bet
\* rows as BetBull and BetBear events were emitted for it.
C7_FinalizedMatchesChain ==
  \A e \in finepoch :
    /\ \E r \in round : r.epoch = e
    /\ Cardinality(EpochRows(hisbet, e)) = Cardinality(ChainBets(world, e))

\* C8: the per-epoch sync of an epoch that has a finalized marker returns
\* success (a skip) at once and changes no table.
C8_FinalizedResyncIsNoop ==
  [][\A t \in Threads :
       (pc[t] = "sync" /\ ep[t] \in finepoch /\ pc'[t] # "sync")
       => /\ res'[t] = "skipped"
          /\ pc'[t] \in {"for", "loop"}
          /\ UNCHANGED Tables]_vars

C8_Witness ==
  \E t \in Threads : res[t] = "skipped" /\ ep[t] \in finepoch /\ pc[t] \in {"for", "loop"}

\* Two threads have each finished a sync of the same epoch, the two calls
\* overlapped in time, no third call on that epoch interfered, and the epoch
\* had no finalized marker when either call was made.
RacedPair(t, u) ==
  /\ t # u /\ ep[t] = ep[u]
  /\ overlap[t] = {u} /\ overlap[u] = {t}
  /\ fresh[t] /\ fresh[u]
  /\ pc[t] \in {"for", "loop"} /\ pc[u] \in {"for", "loop"}
  /\ res[t] # "none" /\ res[u] # "none"

\* C9: when two workers sync the same valid, not yet finalized epoch
\* concurrently (syncEpoch of hisbet.js, no fault, no lock expiry), one writes
\* and returns success, the other returns a skip, and the tables end with the
\* rows of a single run (round row, the bets, the marker, no failed-epoch
\* record).
C9_ConcurrentSyncOneWrites ==
  \A t, u \in Threads :
    (RacedPair(t, u) /\ impl = "hisbet" /\ world = "ok" /\ faults = 0 /\ expiries = 0)
    => /\ \/ res[t] = "ok" /\ wrote[t] /\ res[u] \in {"skipped", "locked"} /\ ~wrote[u]
          \/ res[u] = "ok" /\ wrote[u] /\ res[t] \in {"skipped", "locked"} /\ ~wrote[t]
       /\ ep[t] \in finepoch
       /\ Cardinality({r \in round : r.epoch = ep[t]}) = 1
       /\ Cardinality(EpochRows(hisbet, ep[t])) = Cardinality(ChainBets(world, ep[t]))
       /\ getFailCount(failed_epochs, ep[t]) = 0
       /\ ~\E r \in failed_epochs : r.epoch = ep[t]

\* C11: the failed-epoch record of an epoch counts its failed sync attempts:
\* retry_count is 1 after the first failed attempt and goes up by exactly 1
\* with every further one.
C11_RetryCountCountsFailures ==
  \A e \in Epochs :
    failedSyncs[e] > 0 =>
      \E r \in failed_epochs : r.epoch = e /\ r.retry_count = failedSyncs[e]

\* C12: no worker hands an epoch to the per-epoch sync once it has failed
\* RETRY_MAX times: an epoch has at most RETRY_MAX failed sync attempts.
C12_AtMostRetryMaxFailures ==
  \A e \in Epochs : failedSyncs[e] <= RETRY_MAX

\* C13: a sync that finds the lock key of its epoch held returns without
\* writing to any table, and neither it nor its caller creates or increments
\* the failed-epoch record of the epoch.
C13_LockBusyIsSkip ==
  [][\A t \in Threads :
       (pc[t] = "lock" /\ ep[t] \in lockKeys /\ pc'[t] # "lock")
       => /\ res'[t] = "locked"
          /\ UNCHANGED Tables]_vars

\* C14: a sync that acquired the lock of its epoch has deleted the key
\* processing:epoch:E when it returns or throws to its caller, whatever the
\* outcome (success, failure at any stage, a failed connect, a failed rollback).
C14_LockReleasedOnExit ==
  [][\A t \in Threads :
       (pc[t] \in {"fetch", "write", "release"} /\ pc'[t] \in {"for", "loop"})
       => ep[t] \notin lockKeys']_vars

\* The step in which thread t leaves the fetch stage with event lists of
\* which one side is empty. The lists are those of the estimated block range;
\* when the queries fail (the step counts a fault) hisbet.js goes on with
\* empty lists.
EmptySideStep(t) ==
  LET rng == getBlockRangeForEpoch(hisbet, ep[t]) IN
  /\ pc[t] = "fetch" /\ pc'[t] # "fetch" /\ res'[t] # "threw"
  /\ rng[1]
  /\ MissingSides(IF faults' = faults
                  THEN fetchEvents(world, ep[t], rng[2], rng[3]) ELSE NoEvents) # {}

FailedUnwritten(t) ==
  /\ res'[t] = "error" /\ pc'[t] = "release"
  /\ UNCHANGED <<round, hisbet, claim, multi_claim, finepoch>>

\* C18 as stated: a sync whose fetched BetBull or BetBear set is empty, also
\* because an event query failed, fails with a reason that names the missing
\* side, writes no round or bet row and sets no finalized marker.
C18_EmptySideNamedInReason ==
  [][\A t \in Threads :
       EmptySideStep(t) =>
         /\ FailedUnwritten(t)
         /\ err'[t].stage = "bets" /\ err'[t].missing # {}]_vars

\* C18 amended: such a sync fails, writes no round or bet row and sets no
\* finalized marker; its reason names the missing sides unless an earlier
\* stage failed the sync first: the round validation, or in the genkit port
\* the failed event query itself.
C18_EmptySideFails ==
  [][\A t \in Threads :
       EmptySideStep(t) =>
         LET rng == getBlockRangeForEpoch(hisbet, ep[t])
             events == IF faults' = faults
                       THEN fetchEvents(world, ep[t], rng[2], rng[3]) ELSE NoEvents
         IN /\ FailedUnwritten(t)
            /\ err'[t] =
                 IF impl = "gk" /\ faults' # faults
                 THEN [stage |-> "rpc", missing |-> {}]
                 ELSE IF ~validateRoundDataFromChain(ChainRound(world, ep[t]))
                 THEN [stage |-> "round", missing |-> {}]
                 ELSE [stage |-> "bets", missing |-> MissingSides(events)]]_vars

C18_Witness ==
  \E t \in Threads :
    /\ res[t] = "error" /\ err[t].stage = "bets" /\ err[t].missing = {"DOWN"}
    /\ ep[t] \notin finepoch /\ EpochRows(hisbet, ep[t]) = {}

\* C19: every claim row in the store has 0 < bet_epoch < epoch, epoch being
\* the epoch under which the row was written.
C19_ClaimEpochBelowEpoch ==
  \A c \in claim : 0 < c.bet_epoch /\ c.bet_epoch < c.epoch

\* The store holds claim rows, and a sync was refused because the block range
\* of its epoch held a claim of that epoch or a later one.
C19_Witness ==
  /\ claim # {}
  /\ \E t \in Threads :
       /\ res[t] = "error" /\ err[t].stage = "claims"
       /\ \E c \in ChainClaims :
            LET rng == getBlockRangeForEpoch(hisbet, ep[t]) IN
            rng[2] <= c.blockNumber /\ c.blockNumber <= rng[3] /\ c.epoch >= ep[t]

----------------------------------------------------------------------------
\* The trader (trader.js inside src/migration.js). Times are in ms.

MaxSignals == 3
MaxUpdates == 1
MaxTrFaults == 1

defaultDeltaMs == 4000
ARM_MAX_AGE_MS == 30000
bufferSeconds == 30

\* rounds(epoch).lockTimestamp * 1000 of the chain the trader reads.
LockTimeMs(e) == 300000 * e

getEpochMeta(e) ==
  [lockMs |-> LockTimeMs(e), bufferSec |-> bufferSeconds,
   tStop |-> LockTimeMs(e) - bufferSeconds * 1000]

tSendOf(e) == getEpochMeta(e).tStop - defaultDeltaMs

\* The instants at which the trader's clock is observed. For the first epoch:
\* long before the send point (more than maxAgeMs), shortly before it, the
\* instant at which a waiting timer is due, and the instant from which a bet
\* is given up; for the later epochs the instant at which a timer is due.
Instants ==
  {tSendOf(1) - 40000, tSendOf(1) - 2000, tSendOf(1) - 500, getEpochMeta(1).tStop - 100}
  \cup {tSendOf(e) - 500 : e \in TrEpochs}

\* The chosen strategy's entry of a live_predictions message, after the
\* strategy selection and the optional reversal; strong is isStrongPreFinal.
Signal(e, f, p, c, b) ==
  [epoch |-> e, final |-> f, prediction |-> p, confidence |-> c, strong |-> b]

TrSignals ==
  {Signal(e, TRUE, "UP", "high", FALSE) : e \in TrEpochs}
  \cup {Signal(1, TRUE, "DOWN", "high", FALSE), Signal(1, TRUE, "UP", "low", FALSE),
        Signal(1, FALSE, "UP", "high", TRUE), Signal(1, FALSE, "UP", "high", FALSE)}

\* The deployments: dry run with the switch on, the switch off without dry
\* run, live trading, and the defaults (dry run, switch off, no private key).
TrConfigs ==
  {[dry_run |-> TRUE,  enabled |-> TRUE,  wallet |-> TRUE],
   [dry_run |-> FALSE, enabled |-> FALSE, wallet |-> TRUE],
   [dry_run |-> FALSE, enabled |-> TRUE,  wallet |-> TRUE],
   [dry_run |-> TRUE,  enabled |-> FALSE, wallet |-> FALSE]}

minConfRank(c) == CASE c = "low" -> 0 [] c = "medium" -> 1 [] c = "high" -> 2 [] OTHER -> -1
minConfidenceRank == minConfRank("high")
passConfidence(conf) == minConfRank(conf) >= minConfidenceRank

isDryRun_flagOnly(cfg) == cfg.dry_run

\* The guard of the dry-run branch of maybeTrade.
isDryRun(cfg) == cfg.dry_run \/ ~cfg.enabled \/ ~cfg.wallet

LogRow(task, phase) ==
  [epoch |-> task.sig.epoch, phase |-> phase, prediction |-> task.sig.prediction]

\* logTrade(row): one more row in trade_log.
logTrade(row) == trLog' = trLog (+) SetToBag({row})

Task(at, sig) == [pc |-> at, sig |-> sig, now |-> 0, useNonce |-> -1]

\* The invocations of maybeTrade that are at an await; one of them goes on to
\* its next await, or returns.
Running == BagToSet(trTasks)
Goto(task, next) == trTasks' = (trTasks (-) SetToBag({task})) (+) SetToBag({next})
Finish(task) == trTasks' = trTasks (-) SetToBag({task})

\* maybeTrade without the test signal.final !== true.
StartTask_ignoreFinal(sig) ==
  trTasks' =
    IF passConfidence(sig.confidence)
      THEN trTasks (+) SetToBag({Task("window", sig)}) ELSE trTasks

\* maybeTrade(signal) up to its first await on the chain.
StartTask(sig) ==
  trTasks' =
    IF sig.final
      THEN IF passConfidence(sig.confidence)
             THEN trTasks (+) SetToBag({Task("window", sig)}) ELSE trTasks
      ELSE IF sig.strong /\ passConfidence(sig.confidence)
             THEN trTasks (+) SetToBag({Task("arm", sig)}) ELSE trTasks

\* subscriber.on('message'): a live_predictions message.
OnPrediction(sig) ==
  /\ BagCardinality(trTasks) < Cardinality(Slots)
  /\ trCount.signals < MaxSignals
  /\ trCount' = [trCount EXCEPT !.signals = @ + 1]
  /\ StartTask(sig)
  /\ UNCHANGED <<trCfg, trNow, placed, armed, trLog, txs, ledger, trTimers>>

\* subscriber.on('message'): a round_update_channel message.
OnRoundUpdate(e) ==
  /\ trCount.updates < MaxUpdates
  /\ trCount' = [trCount EXCEPT !.updates = @ + 1]
  /\ placed' = placed \ {e}
  /\ UNCHANGED <<trCfg, trNow, armed, trLog, txs, ledger, trTasks, trTimers>>

\* The armed parameters are used when the direction agrees and they are not
\* older than maxAgeMs; an expired entry is deleted.
ArmedUsable(sig) ==
  /\ armed[sig.epoch] # NoArm
  /\ armed[sig.epoch].prediction = sig.prediction

UseArmed(task) ==
  LET sig == task.sig
      ok == ArmedUsable(sig) /\ trNow - armed[sig.epoch].ts <= ARM_MAX_AGE_MS
  IN /\ armed' = IF ArmedUsable(sig) /\ ~ok
                   THEN [armed EXCEPT ![sig.epoch] = NoArm] ELSE armed
     /\ Goto(task, [task EXCEPT !.useNonce = IF ok THEN armed[sig.epoch].nonce ELSE -1,
                                !.pc = IF isDryRun(trCfg) THEN "dry" ELSE "send"])

\* maybeTrade after getEpochMeta: the send-window and the placed check.
Window(task) ==
  LET sig == task.sig
      meta == getEpochMeta(sig.epoch)
      tSend == meta.tStop - defaultDeltaMs
  IN /\ task.pc = "window"
     /\ IF trNow < tSend - 1000
          THEN /\ trTimers' = trTimers (+)
                    SetToBag({[sig |-> sig, at |-> trNow + Max({0, tSend - trNow - 500})]})
               /\ Finish(task)
               /\ UNCHANGED armed
          ELSE /\ UNCHANGED trTimers
               /\ IF trNow >= meta.tStop - 100 \/ sig.epoch \in placed
                    THEN Finish(task) /\ UNCHANGED armed
                    ELSE IF trCfg.wallet
                           THEN Goto(task, [task EXCEPT !.pc = "ledger"]) /\ UNCHANGED armed
                           ELSE UseArmed(task)
     /\ UNCHANGED <<trCfg, trNow, placed, trLog, txs, ledger, trCount>>

\* setTimeout(() => maybeTrade(signal), wait) fires.
TimerFire(t) ==
  /\ trNow >= t.at
  /\ BagCardinality(trTasks) < Cardinality(Slots)
  /\ trTimers' = trTimers (-) SetToBag({t})
  /\ StartTask(t.sig)
  /\ UNCHANGED <<trCfg, trNow, placed, armed, trLog, txs, ledger, trCount>>

\* alreadyBet(epoch, address) returned the ledger's answer.
AlreadyBet(task) ==
  /\ task.pc = "ledger"
  /\ IF task.sig.epoch \in ledger
       THEN /\ placed' = placed \cup {task.sig.epoch}
            /\ Finish(task)
            /\ UNCHANGED armed
       ELSE UseArmed(task) /\ UNCHANGED placed
  /\ UNCHANGED <<trCfg, trNow, trLog, txs, ledger, trTimers, trCount>>

\* alreadyBet: the ledger read threw, which counts as "no bet yet".
AlreadyBetReadFail(task) ==
  /\ task.pc = "ledger"
  /\ trCount.faults < MaxTrFaults
  /\ trCount' = [trCount EXCEPT !.faults = @ + 1]
  /\ UseArmed(task)
  /\ UNCHANGED <<trCfg, trNow, placed, trLog, txs, ledger, trTimers>>

\* The dry-run branch: the intent is logged and the epoch is marked.
DryRun(task) ==
  /\ task.pc = "dry"
  /\ logTrade(LogRow(task, "final_dryrun"))
  /\ placed' = placed \cup {task.sig.epoch}
  /\ Finish(task)
  /\ UNCHANGED <<trCfg, trNow, armed, txs, ledger, trTimers, trCount>>

\* The contract accepts a bet on an epoch before its lock time, once per
\* address; a transaction whose nonce is already taken is not accepted.
Bettable(e) == trNow < LockTimeMs(e) /\ e \notin ledger

NonceOf(task) == IF task.useNonce >= 0 THEN task.useNonce ELSE Cardinality(txs)

\* The real order: getFeeData, writable[func](...), logTrade(final_sent).
Send(task) ==
  LET e == task.sig.epoch
      func == IF task.sig.prediction = "UP" THEN "betBull" ELSE "betBear"
  IN /\ task.pc = "send"
     /\ IF Bettable(e) /\ ~\E x \in txs : x.nonce = NonceOf(task)
          THEN /\ txs' = txs \cup {[epoch |-> e, func |-> func, nonce |-> NonceOf(task)]}
               /\ logTrade(LogRow(task, "final_sent"))
               /\ Goto(task, [task EXCEPT !.pc = "wait"])
          ELSE Finish(task) /\ UNCHANGED <<txs, trLog>>
     /\ UNCHANGED <<trCfg, trNow, placed, armed, ledger, trTimers, trCount>>

\* getFeeData or the submission threw (provider error): the catch only logs.
SendFail(task) ==
  /\ task.pc = "send"
  /\ trCount.faults < MaxTrFaults
  /\ trCount' = [trCount EXCEPT !.faults = @ + 1]
  /\ Finish(task)
  /\ UNCHANGED <<trCfg, trNow, placed, armed, trLog, txs, ledger, trTimers>>

\* tx.wait(1): the transaction is mined. A second bet of the same address on
\* the same epoch reverts, and tx.wait throws for a reverted transaction.
Receipt(task) ==
  LET e == task.sig.epoch
  IN /\ task.pc = "wait"
     /\ IF e \notin ledger
          THEN /\ ledger' = ledger \cup {e}
               /\ logTrade(LogRow(task, "final_receipt"))
               /\ placed' = placed \cup {e}
          ELSE UNCHANGED <<ledger, trLog, placed>>
     /\ Finish(task)
     /\ UNCHANGED <<trCfg, trNow, armed, txs, trTimers, trCount>>

\* tx.wait(1) threw although the transaction is not reverted (provider error).
ReceiptFail(task) ==
  /\ task.pc = "wait"
  /\ trCount.faults < MaxTrFaults
  /\ trCount' = [trCount EXCEPT !.faults = @ + 1]
  /\ Finish(task)
  /\ UNCHANGED <<trCfg, trNow, placed, armed, trLog, txs, ledger, trTimers>>

\* maybeArm after getEpochMeta, up to the await of the pending nonce.
ArmCheck(task) ==
  LET e == task.sig.epoch
  IN /\ task.pc = "arm"
     /\ IF trNow >= tSendOf(e) - 500 \/ armed[e] # NoArm \/ ~trCfg.wallet
          THEN Finish(task)
          ELSE Goto(task, [task EXCEPT !.pc = "nonce", !.now = trNow])
     /\ UNCHANGED <<trCfg, trNow, placed, armed, trLog, txs, ledger, trTimers, trCount>>

\* maybeArm after getTransactionCount(address, 'pending').
ArmSet(task) ==
  /\ task.pc = "nonce"
  /\ armed' = [armed EXCEPT ![task.sig.epoch] =
                 [prediction |-> task.sig.prediction, ts |-> task.now,
                  nonce |-> Cardinality(txs)]]
  /\ logTrade(LogRow(task, "arm"))
  /\ Finish(task)
  /\ UNCHANGED <<trCfg, trNow, placed, txs, ledger, trTimers, trCount>>

\* Time passes.
TrTick ==
  /\ \E t \in Instants : t > trNow /\ trNow' = t
  /\ UNCHANGED <<trCfg, placed, armed, trLog, txs, ledger, trTasks, trTimers, trCount>>

InitTrader ==
  /\ trCfg \in TrConfigs
  /\ TraderState
  /\ SyncIdle /\ IngestIdle /\ AggIdle /\ MomIdle /\ LsnIdle /\ ClockIdle

TraderOnly == UNCHANGED <<syncVars, ingestVars, aggVars, momVars, lsnVars, clockVars, estVars>>

NextTrader ==
  \/ \E sig \in TrSignals : OnPrediction(sig) /\ TraderOnly
  \/ \E e \in TrEpochs : OnRoundUpdate(e) /\ TraderOnly
  \/ \E task \in Running : Window(task) /\ TraderOnly
  \/ \E t \in BagToSet(trTimers) : TimerFire(t) /\ TraderOnly
  \/ \E task \in Running : AlreadyBet(task) /\ TraderOnly
  \/ \E task \in Running : AlreadyBetReadFail(task) /\ TraderOnly
  \/ \E task \in Running : DryRun(task) /\ TraderOnly
  \/ \E task \in Running : Send(task) /\ TraderOnly
  \/ \E task \in Running : SendFail(task) /\ TraderOnly
  \/ \E task \in Running : Receipt(task) /\ TraderOnly
  \/ \E task \in Running : ReceiptFail(task) /\ TraderOnly
  \/ \E task \in Running : ArmCheck(task) /\ TraderOnly
  \/ \E task \in Running : ArmSet(task) /\ TraderOnly
  \/ TrTick /\ TraderOnly

SpecTrader == InitTrader /\ [][NextTrader]_vars

----------------------------------------------------------------------------
\* Properties of the trader

\* Number of trade_log rows of epoch e whose phase is in the given set.
CountRows(log, e, phases) ==
  LET rows == {r \in BagToSet(log) : r.epoch = e /\ r.phase \in phases}
  IN BagCardinality([r \in rows |-> log[r]])

\* C2: for every epoch, whatever predictions and round updates arrive, at
\* most one betBull/betBear transaction is submitted and at most one
\* final_dryrun or final_sent record is written.
C2_OnePlacementPerEpoch ==
  \A e \in TrEpochs :
    /\ Cardinality({x \in txs : x.epoch = e}) <= 1
    /\ CountRows(trLog, e, {"final_dryrun", "final_sent"}) <= 1

\* C3: with dry_run set or enabled unset no betBull/betBear transaction is
\* ever submitted, and the only record a final prediction produces is a
\* final_dryrun record, written together with the entry of its epoch in
\* placed.
C3_DryRunNeverTransacts ==
  [][(trCfg.dry_run \/ ~trCfg.enabled) =>
       /\ txs' = {}
       /\ \A r \in BagToSet(trLog') :
            CopiesIn(r, trLog') > CopiesIn(r, trLog) =>
              /\ r.phase \in {"final_dryrun", "arm"}
              /\ r.phase = "final_dryrun" => r.epoch \in placed']_vars

C3_Witness ==
  /\ trCfg.dry_run \/ ~trCfg.enabled
  /\ \E r \in BagToSet(trLog) : r.phase = "final_dryrun" /\ r.epoch \in placed
  /\ txs = {}

\* The submission of the task's order ends in the catch block in this step:
\* the task leaves maybeTrade at the send without a transaction.
SendThrew(task) ==
  /\ task.pc = "send"
  /\ trTasks' = trTasks (-) SetToBag({task})
  /\ txs' = txs

\* C20: after a send-time error for epoch E, E is in placed when the error
\* establishes that the order is rejected (the contract reverts the bet at
\* gas estimation, or the node refuses the nonce), and a network or time-out
\* error of the provider leaves placed as it was.
C20_RejectionMarksPlaced ==
  [][\A task \in Running :
       SendThrew(task) =>
         IF trCount'.faults = trCount.faults
           THEN task.sig.epoch \in placed'
           ELSE placed' = placed]_vars

----------------------------------------------------------------------------
\* The stream consumer (startStreamConsumer and flushBatch of src/realbet.js)

MaxStream == 3
MaxCrashes == 1
MaxDbFaults == 1

BATCH_SIZE == 100

\* The (bet_time, tx_hash) keys of the bets that are appended.
BetKeys == {"b1", "b2"}

Range(q) == {q[i] : i \in DOMAIN q}

\* processBetEvent: XADD of a bet; a payload that is no JSON is also possible.
xAdd(bet, valid) ==
  /\ Len(stream) < MaxStream
  /\ stream' = Append(stream, [bet |-> bet, valid |-> valid])
  /\ UNCHANGED <<lastDelivered, pel, realbetLive, batchBuffer, cpc, analysis, dbMode,
                 dbFails, crashes, crashedAt>>

\* XREADGROUP ... id '>': the entries never delivered to the group, at most
\* BATCH_SIZE of them.
xReadGroup == lastDelivered + 1 .. Min({Len(stream), lastDelivered + BATCH_SIZE})

\* A read whose parse is not guarded: the first unparseable message ends the
\* turn in the loop's catch, with nothing of the read buffered or acknowledged
Read_unguardedParse(elapsed) ==
  LET new == xReadGroup
      allGood == \A i \in new : stream[i].valid
      good == SelectSeq([i \in 1..Len(stream) |-> i], LAMBDA i : i \in new /\ allGood)
      buf == batchBuffer \o good
      shouldFlush == allGood /\ (Len(buf) >= BATCH_SIZE \/ (Len(buf) > 0 /\ elapsed))
  IN /\ cpc = "read"
     /\ lastDelivered' = Max({lastDelivered} \cup new)
     /\ pel' = pel \cup new
     /\ batchBuffer' = buf
     /\ cpc' = IF shouldFlush THEN "flush" ELSE "read"
     /\ UNCHANGED <<stream, realbetLive, analysis, dbMode, dbFails, crashes, crashedAt>>

\* One turn of the while loop up to the flush: the read, the parse of every
\* message (an unparseable one is acknowledged at once), the flush condition.
\* elapsed: more than BATCH_TIMEOUT ms have passed since the last flush.
Read(elapsed) ==
  LET new == xReadGroup
      good == SelectSeq([i \in 1..Len(stream) |-> i], LAMBDA i : i \in new /\ stream[i].valid)
      buf == batchBuffer \o good
      shouldFlush == Len(buf) >= BATCH_SIZE \/ (Len(buf) > 0 /\ elapsed)
  IN /\ cpc = "read"
     /\ lastDelivered' = Max({lastDelivered} \cup new)
     /\ pel' = pel \cup Range(good)
     /\ batchBuffer' = buf
     /\ cpc' = IF shouldFlush THEN "flush" ELSE "read"
     /\ UNCHANGED <<stream, realbetLive, analysis, dbMode, dbFails, crashes, crashedAt>>

\* An insert that overwrites the row of a key that is stored already
InsertLive_upsert(rows, batch) ==
  {r \in rows : \A i \in batch : stream[i].bet # r.key}
  \cup {[key |-> stream[i].bet, msg |-> i]
        : i \in {j \in batch : \A k \in batch : stream[k].bet = stream[j].bet => k <= j}}

\* INSERT INTO realbet ... VALUES (one tuple per message of the batch)
\* ON CONFLICT (bet_time, tx_hash) DO NOTHING. A row is its key and its other
\* columns, which are those of the message that wrote it; of two tuples of
\* the statement with the same key the first is inserted.
InsertLive(rows, batch) ==
  rows \cup {[key |-> stream[i].bet, msg |-> i]
             : i \in {j \in batch : /\ \A r \in rows : r.key # stream[j].bet
                                   /\ \A k \in batch : stream[k].bet = stream[j].bet => j <= k}}

\* flushBatch: BEGIN, INSERT, COMMIT.
FlushCommit ==
  /\ cpc = "flush" /\ dbMode = "ok"
  /\ realbetLive' = InsertLive(realbetLive, Range(batchBuffer))
  /\ cpc' = "ack"
  /\ UNCHANGED <<stream, lastDelivered, pel, batchBuffer, analysis, dbMode, dbFails,
                 crashes, crashedAt>>

\* A failed statement whose error is swallowed before the acknowledgements
FlushQueryFail_thenAck ==
  /\ cpc = "flush" /\ dbMode = "readonly"
  /\ cpc' = "ack"
  /\ UNCHANGED <<stream, lastDelivered, pel, realbetLive, batchBuffer, analysis, dbMode,
                 dbFails, crashes, crashedAt>>

\* flushBatch: a statement fails, the catch rolls back and swallows the error;
\* the loop then empties the buffer.
FlushQueryFail ==
  /\ cpc = "flush" /\ dbMode = "readonly"
  /\ batchBuffer' = <<>>
  /\ cpc' = "read"
  /\ UNCHANGED <<stream, lastDelivered, pel, realbetLive, analysis, dbMode, dbFails,
                 crashes, crashedAt>>

\* flushBatch: pool.connect() (or the ROLLBACK itself) throws; the loop's catch
\* sleeps 5 s and goes on with the buffer as it is.
FlushConnectFail ==
  /\ cpc = "flush" /\ dbMode = "down"
  /\ cpc' = "read"
  /\ UNCHANGED <<stream, lastDelivered, pel, realbetLive, batchBuffer, analysis, dbMode,
                 dbFails, crashes, crashedAt>>

\* flushBatch: XACK of every message of the batch.
AckAll ==
  /\ cpc = "ack"
  /\ pel' = pel \ Range(batchBuffer)
  /\ cpc' = "publish"
  /\ UNCHANGED <<stream, lastDelivered, realbetLive, batchBuffer, analysis, dbMode,
                 dbFails, crashes, crashedAt>>

\* flushBatch: the analysis requests; back in the loop the buffer is emptied.
PublishAnalysis ==
  /\ cpc = "publish"
  /\ analysis' = analysis \cup Range(batchBuffer)
  /\ batchBuffer' = <<>>
  /\ cpc' = "read"
  /\ UNCHANGED <<stream, lastDelivered, pel, realbetLive, dbMode, dbFails, crashes,
                 crashedAt>>

\* The process dies; what it held in memory is gone.
Crash ==
  /\ cpc \notin {"down", "exited"} /\ crashes < MaxCrashes
  /\ crashes' = crashes + 1
  /\ crashedAt' = cpc
  /\ batchBuffer' = <<>>
  /\ cpc' = "down"
  /\ UNCHANGED <<stream, lastDelivered, pel, realbetLive, analysis, dbMode, dbFails>>

\* Start-up: the database test (SELECT 1), then startStreamConsumer; the group
\* exists already (BUSYGROUP).
Restart ==
  /\ cpc = "down" /\ dbMode # "down"
  /\ cpc' = "read"
  /\ UNCHANGED <<stream, lastDelivered, pel, realbetLive, batchBuffer, analysis, dbMode,
                 dbFails, crashes, crashedAt>>

DbFail(mode) ==
  /\ dbMode = "ok" /\ dbFails < MaxDbFaults
  /\ dbFails' = dbFails + 1
  /\ dbMode' = mode
  /\ UNCHANGED <<stream, lastDelivered, pel, realbetLive, batchBuffer, cpc, analysis,
                 crashes, crashedAt>>

DbRecover ==
  /\ dbMode # "ok"
  /\ dbMode' = "ok"
  /\ UNCHANGED <<stream, lastDelivered, pel, realbetLive, batchBuffer, cpc, analysis,
                 dbFails, crashes, crashedAt>>

InitIngest == SyncIdle /\ TraderIdle /\ IngestIdle /\ AggIdle /\ MomIdle /\ LsnIdle /\ ClockIdle

IngestOnly == UNCHANGED <<syncVars, traderVars, aggVars, momVars, lsnVars, clockVars, estVars>>

NextIngest ==
  \/ \E bet \in BetKeys, valid \in BOOLEAN : xAdd(bet, valid) /\ IngestOnly
  \/ \E elapsed \in BOOLEAN : Read(elapsed) /\ IngestOnly
  \/ FlushCommit /\ IngestOnly
  \/ FlushQueryFail /\ IngestOnly
  \/ FlushConnectFail /\ IngestOnly
  \/ AckAll /\ IngestOnly
  \/ PublishAnalysis /\ IngestOnly
  \/ Crash /\ IngestOnly
  \/ Restart /\ IngestOnly
  \/ \E mode \in {"readonly", "down"} : DbFail(mode) /\ IngestOnly
  \/ DbRecover /\ IngestOnly

\* The loop keeps turning and the clock keeps running (a read with the batch
\* timeout elapsed happens again and again), every await of a flush returns,
\* a dead process is started again, and the database comes back.
IngestFairness ==
  /\ WF_vars(Read(TRUE) /\ IngestOnly)
  /\ WF_vars(FlushCommit /\ IngestOnly)
  /\ WF_vars(FlushQueryFail /\ IngestOnly)
  /\ WF_vars(FlushConnectFail /\ IngestOnly)
  /\ WF_vars(AckAll /\ IngestOnly)
  /\ WF_vars(PublishAnalysis /\ IngestOnly)
  /\ WF_vars(Restart /\ IngestOnly)
  /\ WF_vars(DbRecover /\ IngestOnly)

SpecIngest == InitIngest /\ [][NextIngest]_vars /\ IngestFairness

\* The SIGTERM / SIGINT handler of the main line: listenerService.disconnect(),
\* quit of both Redis clients, pool.end(), process.exit(0).  The loop of
\* startStreamConsumer is wherever it is when the process exits, and its
\* batchBuffer goes with the process.
Shutdown ==
  /\ cpc \notin {"down", "exited"}
  /\ batchBuffer' = <<>>
  /\ cpc' = "exited"
  /\ UNCHANGED <<stream, lastDelivered, pel, realbetLive, analysis, dbMode, dbFails,
                 crashes, crashedAt>>

NextShutdown ==
  \/ NextIngest
  \/ Shutdown /\ IngestOnly

SpecShutdown == InitIngest /\ [][NextShutdown]_vars

----------------------------------------------------------------------------
\* Properties of the stream consumer

Messages == 1..MaxStream

\* The bet of message i is in the live table.
Stored(i) == i <= Len(stream) /\ \E r \in realbetLive : r.key = stream[i].bet

\* C4: when no crash occurs, every message delivered to the consumer (also one
\* whose flush transaction failed) is eventually stored in the live table and
\* acknowledged, once the store accepts writes again.
C4_FailedFlushIsRetried ==
  \A i \in Messages :
    (i \in pel) ~> (crashes > 0 \/ (i \notin pel /\ Stored(i)))

\* C5: after a crash between the commit of a batch and its acknowledgement the
\* consumer is restarted, the messages are delivered and acknowledged, and
\* the pending count of the group returns to 0.
C5_PendingReturnsToZero ==
  (cpc = "down" /\ crashedAt = "ack" /\ dbFails = 0) ~> (pel = {} \/ dbFails > 0)

----------------------------------------------------------------------------
\* The live prediction aggregator (backtest service, src/README.md).
\* Times are in ms; amounts are integers, a live bet being BetAmount units.

MaxAggInputs == 3

publishIntervalMs == 3000
finalAdvanceMs == 5000

\* lock_time of the round row as the aggregator reads it: written as a Taipei
\* wall-clock string, read back in the zone of the process.
AggLockMs(e) == parseLocalTime(toTaipeiTimeString(300 * e), serverTz) * 1000

\* The instants at which messages arrive, besides the start (early in the
\* round): less than finalAdvanceMs + 500 ms before the lock of epoch 1.
AggInstants == {AggLockMs(1) - 5200}

\* The bets that arrive on instant_bet_channel: epoch and direction.
AggBetKinds == {<<1, "UP">>, <<1, "DOWN">>, <<2, "UP">>}

\* bet_amount of every bet on instant_bet_channel.
BetAmount == 3

\* The round rows with a result: the reconciliation lags, the three rounds
\* before the current ones are not finalized yet. price_change is kept in
\* units of 0.0001.
AggFinalized == {-4, -3, -2}
RoundRow(k) == [result |-> "UP", up |-> 5, total |-> 5, price_change |-> 1]

RECURSIVE RowsDesc(_)
RowsDesc(ks) ==
  IF ks = {} THEN <<>> ELSE <<RoundRow(Max(ks))>> \o RowsDesc(ks \ {Max(ks)})

\* The trend query of initEpochContext: the finalized rounds among the five
\* before e, newest first.
HistRows(e) == RowsDesc({k \in (e - 5)..(e - 1) : k \in AggFinalized})

RECURSIVE SumSeq(_)
SumSeq(s) == IF s = <<>> THEN 0 ELSE Head(s) + SumSeq(Tail(s))

RECURSIVE ProdSeq(_)
ProdSeq(s) == IF s = <<>> THEN 1 ELSE Head(s) * ProdSeq(Tail(s))

\* avgHistVolume of initEpochContext: the mean of the positive totals (the
\* totals of the rows of this model have an integer mean), 0 without any.
AvgHistVolume(rows) ==
  LET Positive(r) == r.total > 0
      vols == SelectSeq(rows, Positive)
  IN IF vols = <<>> THEN 0
     ELSE SumSeq([i \in DOMAIN vols |-> vols[i].total]) \div Len(vols)

\* upScore and downScore of calculateMomentumPrediction, in exact arithmetic:
\* with P the product of the positive historical totals and S the sum of
\* up_i * P / total_i, the mean historical up ratio is S / (n * P).
Scores(historicalData, up, total) ==
  LET recent == SubSeq(historicalData, 1, Min({3, Len(historicalData)}))
      upStreak == Cardinality({i \in DOMAIN recent : recent[i].result = "UP"})
      downStreak == Cardinality({i \in DOMAIN recent : recent[i].result = "DOWN"})
      Positive(r) == r.total > 0
      rated == SelectSeq(historicalData, Positive)
      n == Len(rated)
      P == ProdSeq([i \in DOMAIN rated |-> rated[i].total])
      S == SumSeq([i \in DOMAIN rated |-> rated[i].up * (P \div rated[i].total)])
      diffNum == up * n * P - S * total
      significant == n > 0 /\ 10 * Abs(diffNum) > total * n * P
      V == SumSeq([i \in DOMAIN rated |-> rated[i].total])
      highVolume == n > 0 /\ 10 * total * n > 15 * V
      m == Len(historicalData)
      B == SumSeq([i \in DOMAIN historicalData |-> historicalData[i].price_change])
      sqDev == SumSeq([i \in DOMAIN historicalData |->
                 (m * historicalData[i].price_change - B)
                   * (m * historicalData[i].price_change - B)])
      lowVolatility == m >= 2 /\ sqDev < 10000 * m * m * m
      lastPriceChange == historicalData[1].price_change
      breakout == lowVolatility /\ Abs(lastPriceChange) > 200
  IN [up |-> (IF upStreak = 2 THEN 1 ELSE 0)
             + (IF downStreak >= 3 THEN 2 ELSE 0)
             + (IF significant /\ diffNum > 0 THEN 2 ELSE 0)
             + (IF highVolume /\ 10 * up > 6 * total THEN 1 ELSE 0)
             + (IF breakout /\ lastPriceChange > 0 THEN 2 ELSE 0),
      down |-> (IF upStreak >= 3 THEN 2 ELSE 0)
               + (IF downStreak = 2 THEN 1 ELSE 0)
               + (IF significant /\ diffNum < 0 THEN 2 ELSE 0)
               + (IF highVolume /\ 10 * up <= 6 * total /\ 10 * up < 4 * total
                    THEN 1 ELSE 0)
               + (IF breakout /\ lastPriceChange <= 0 THEN 2 ELSE 0)]

calculateMomentumPrediction(historicalData, up, total) ==
  LET score == Scores(historicalData, up, total)
  IN IF score.up = score.down
       THEN (IF 2 * up > total THEN "UP" ELSE "DOWN")
       ELSE (IF score.up > score.down THEN "UP" ELSE "DOWN")

\* The prediction of maybePublishLivePrediction.
Prediction(agg) ==
  IF Len(agg.histRows) >= 3
    THEN calculateMomentumPrediction(agg.histRows, agg.up, agg.total)
    ELSE (IF 2 * agg.up >= agg.total THEN "UP" ELSE "DOWN")

getVolumeBucket(total, avg) ==
  IF avg > 0 /\ 10 * total >= 15 * avg THEN "high"
  ELSE IF avg > 0 /\ 10 * total >= 12 * avg THEN "mid"
  ELSE "base"

\* The revision test of maybePublishLivePrediction on up / total against the
\* last emitted values.
Revised(agg) ==
  LET crossedMid == /\ agg.lastUp # -1
                    /\ \/ 2 * agg.lastUp < agg.lastTotal /\ 2 * agg.up >= agg.total
                       \/ 2 * agg.lastUp > agg.lastTotal /\ 2 * agg.up <= agg.total
      movedEnough == \/ agg.lastUp = -1
                     \/ 100 * Abs(agg.up * agg.lastTotal - agg.lastUp * agg.total)
                          >= 3 * agg.total * agg.lastTotal
      volumeChanged == \/ agg.lastVolumeBucket = "none"
                       \/ getVolumeBucket(agg.total, agg.avgHistVolume) # agg.lastVolumeBucket
  IN movedEnough \/ crossedMid \/ volumeChanged

AggTask(at, e, dir) ==
  [pc |-> at, epoch |-> e, dir |-> dir, now |-> 0, up |-> 0, total |-> 0, bucket |-> "none"]

\* maybePublishLivePrediction({force, final}) on the state agg, up to the
\* await of the publish; tasks are the handlers that stay at an await.
maybePublishLivePrediction(agg, force, final, tasks) ==
  IF /\ agg.epoch # 0 /\ agg.total > 0
     /\ force \/ aggNow - agg.lastPublishTs >= publishIntervalMs
     /\ force \/ final \/ Revised(agg)
    THEN /\ liveAgg' = [agg EXCEPT !.version = @ + 1]
         /\ published' = Append(published,
              [epoch |-> agg.epoch, version |-> agg.version + 1, final |-> final,
               ts |-> aggNow, prediction |-> Prediction(agg), up |-> agg.up,
               total |-> agg.total,
               bucket |-> getVolumeBucket(agg.total, agg.avgHistVolume)])
         /\ aggTasks' = tasks (+) SetToBag({[AggTask("published", agg.epoch, "") EXCEPT
              !.now = aggNow, !.up = agg.up, !.total = agg.total,
              !.bucket = getVolumeBucket(agg.total, agg.avgHistVolume)]})
    ELSE /\ liveAgg' = agg
         /\ aggTasks' = tasks
         /\ UNCHANGED published

\* maybePublishLivePrediction after the awaits of the publish.
AfterPublish(task) ==
  /\ task.pc = "published"
  /\ liveAgg' = [liveAgg EXCEPT !.lastPublishTs = task.now, !.lastUp = task.up,
                                !.lastTotal = task.total, !.lastVolumeBucket = task.bucket]
  /\ aggTasks' = aggTasks (-) SetToBag({task})
  /\ UNCHANGED <<aggNow, timers, published, aggBets, unstored, aggCount, aggEarly, aggStale>>

\* initEpochContext(epoch) up to its first query.
EnterEpoch(e) == IF liveAgg.epoch # e THEN resetLiveAgg(e) ELSE liveAgg

\* round_update_channel message: initEpochContext starts.
AggRoundUpdate(e) ==
  /\ aggCount < MaxAggInputs
  /\ BagCardinality(aggTasks) < Cardinality(Slots)
  /\ aggCount' = aggCount + 1
  /\ liveAgg' = EnterEpoch(e)
  /\ aggTasks' = aggTasks (+) SetToBag({AggTask("seedRound", e, "")})
  /\ aggEarly' = IF aggNow < AggLockMs(e) - finalAdvanceMs THEN aggEarly \cup {e} ELSE aggEarly
  /\ UNCHANGED <<aggNow, timers, published, aggBets, unstored, aggStale>>

\* initEpochContext after its two queries: the sums of the realbet table and
\* the historical features are written into liveAgg; when the trend query
\* throws (trendOk = FALSE) the features are left as they are.
Seed(task, trendOk) ==
  /\ task.pc \in {"seedRound", "seedBet"}
  /\ liveAgg' = [liveAgg EXCEPT !.up = aggBets[task.epoch].up,
                                !.down = aggBets[task.epoch].down,
                                !.total = aggBets[task.epoch].up + aggBets[task.epoch].down,
                                !.histRows = IF trendOk THEN HistRows(task.epoch) ELSE @,
                                !.avgHistVolume =
                                  IF trendOk THEN AvgHistVolume(HistRows(task.epoch)) ELSE @]
  /\ aggTasks' = (aggTasks (-) SetToBag({task})) (+)
       SetToBag({[task EXCEPT !.pc = IF task.pc = "seedRound" THEN "schedule" ELSE "count"]})
  /\ UNCHANGED <<aggNow, timers, published, aggBets, unstored, aggCount, aggEarly, aggStale>>

\* scheduleFinalPrediction(epoch) after the query of lock_time.
scheduleFinalPrediction(task) ==
  LET delay == Max({0, AggLockMs(task.epoch) - aggNow - finalAdvanceMs})
  IN /\ task.pc = "schedule"
     /\ IF delay < 500
          THEN /\ timers' = timers (+) SetToBag({aggNow + 500})
               /\ UNCHANGED liveAgg
          ELSE /\ liveAgg' = [liveAgg EXCEPT !.finalTimer =
                                [due |-> aggNow + delay, pending |-> TRUE]]
               /\ UNCHANGED timers
     /\ aggTasks' = aggTasks (-) SetToBag({task})
     /\ UNCHANGED <<aggNow, published, aggBets, unstored, aggCount, aggEarly, aggStale>>

\* The handler without the test epoch !== liveAgg.epoch.
CountBet_anyEpoch(agg, e, dir, tasks) ==
  maybePublishLivePrediction(
    [agg EXCEPT !.up = IF dir = "UP" THEN @ + BetAmount ELSE @,
                !.down = IF dir = "DOWN" THEN @ + BetAmount ELSE @,
                !.total = @ + BetAmount],
    FALSE, FALSE, tasks)

\* The bet is added to the sums of the current epoch and a publication is
\* tried; a bet of another epoch is ignored.
CountBet(agg, e, dir, tasks) ==
  IF e # agg.epoch
    THEN liveAgg' = agg /\ aggTasks' = tasks /\ UNCHANGED published
    ELSE maybePublishLivePrediction(
           [agg EXCEPT !.up = IF dir = "UP" THEN @ + BetAmount ELSE @,
                       !.down = IF dir = "DOWN" THEN @ + BetAmount ELSE @,
                       !.total = @ + BetAmount],
           FALSE, FALSE, tasks)

\* instant_bet_channel message (the listener published the bet and appended
\* it to the stream; the consumer stores it later).
AggBet(e, dir) ==
  /\ aggCount < MaxAggInputs
  /\ BagCardinality(aggTasks) < Cardinality(Slots)
  /\ aggCount' = aggCount + 1
  /\ unstored' = [unstored EXCEPT ![e].up = IF dir = "UP" THEN @ + BetAmount ELSE @,
                                  ![e].down = IF dir = "DOWN" THEN @ + BetAmount ELSE @]
  /\ IF liveAgg.epoch = 0 \/ e > liveAgg.epoch
       THEN /\ liveAgg' = EnterEpoch(e)
            /\ aggTasks' = aggTasks (+) SetToBag({AggTask("seedBet", e, dir)})
            /\ UNCHANGED published
       ELSE CountBet(liveAgg, e, dir, aggTasks)
  /\ aggStale' = IF liveAgg.epoch # 0 /\ e < liveAgg.epoch THEN aggStale + 1 ELSE aggStale
  /\ UNCHANGED <<aggNow, timers, aggBets, aggEarly>>

\* The bet handler after initEpochContext.
AggBetAfterSeed(task) ==
  /\ task.pc = "count"
  /\ CountBet(liveAgg, task.epoch, task.dir, aggTasks (-) SetToBag({task}))
  /\ UNCHANGED <<aggNow, timers, aggBets, unstored, aggCount, aggEarly, aggStale>>

\* A timer set by scheduleFinalPrediction for a lock less than 500 ms after
\* the final point fires.
LateTimerFire(due) ==
  /\ due <= aggNow
  /\ timers' = timers (-) SetToBag({due})
  /\ maybePublishLivePrediction(liveAgg, TRUE, TRUE, aggTasks)
  /\ UNCHANGED <<aggNow, aggBets, unstored, aggCount, aggEarly, aggStale>>

\* liveAgg.finalTimer fires.
FinalTimerFire ==
  /\ liveAgg.finalTimer.pending /\ liveAgg.finalTimer.due <= aggNow
  /\ maybePublishLivePrediction([liveAgg EXCEPT !.finalTimer.pending = FALSE],
                                TRUE, TRUE, aggTasks)
  /\ UNCHANGED <<aggNow, timers, aggBets, unstored, aggCount, aggEarly, aggStale>>

\* The stream consumer stores the bets of an epoch in the realbet table.
StoreBets(e) ==
  /\ unstored[e] # [up |-> 0, down |-> 0]
  /\ aggBets' = [aggBets EXCEPT ![e].up = @ + unstored[e].up,
                                ![e].down = @ + unstored[e].down]
  /\ unstored' = [unstored EXCEPT ![e] = [up |-> 0, down |-> 0]]
  /\ UNCHANGED <<liveAgg, aggNow, timers, published, aggTasks, aggCount, aggEarly, aggStale>>

PendingDues ==
  BagToSet(timers) \cup (IF liveAgg.finalTimer.pending THEN {liveAgg.finalTimer.due} ELSE {})

\* Time passes; a timer fires when it is due, and the queries and publishes
\* the handlers await return before the next instant.
AggTick ==
  /\ aggTasks = EmptyBag
  /\ \E t \in AggInstants \cup PendingDues :
       /\ t > aggNow
       /\ \A d \in PendingDues : t <= d
       /\ aggNow' = t
  /\ UNCHANGED <<liveAgg, timers, published, aggBets, unstored, aggTasks, aggCount,
                 aggEarly, aggStale>>

InitAgg == SyncIdle /\ TraderIdle /\ IngestIdle /\ AggIdle /\ MomIdle /\ LsnIdle /\ ClockIdle

AggOnly == UNCHANGED <<syncVars, traderVars, ingestVars, momVars, lsnVars, clockVars, estVars>>

NextAgg ==
  \/ \E e \in AggEpochs : AggRoundUpdate(e) /\ AggOnly
  \/ \E b \in AggBetKinds : AggBet(b[1], b[2]) /\ AggOnly
  \/ \E task \in BagToSet(aggTasks), trendOk \in BOOLEAN : Seed(task, trendOk) /\ AggOnly
  \/ \E task \in BagToSet(aggTasks) : scheduleFinalPrediction(task) /\ AggOnly
  \/ \E task \in BagToSet(aggTasks) : AggBetAfterSeed(task) /\ AggOnly
  \/ \E task \in BagToSet(aggTasks) : AfterPublish(task) /\ AggOnly
  \/ \E due \in BagToSet(timers) : LateTimerFire(due) /\ AggOnly
  \/ FinalTimerFire /\ AggOnly
  \/ \E e \in AggEpochs : StoreBets(e) /\ AggOnly
  \/ AggTick /\ AggOnly

SpecAgg == InitAgg /\ [][NextAgg]_vars

----------------------------------------------------------------------------
\* calculateMomentumPrediction(historicalData, currentRound) on its own: the
\* arguments are drawn from the rows below, the call returns the prediction.

MaxHistLen == 3       \* rows of historicalData (the trend query returns up to 5)
MaxMomTotal == 4      \* total_bet_amount of currentRound

MomRows ==
  {[result |-> "UP", up |-> 0, total |-> 2, price_change |-> 250],
   [result |-> "DOWN", up |-> 2, total |-> 2, price_change |-> -250],
   [result |-> "UP", up |-> 1, total |-> 2, price_change |-> 1],
   [result |-> "DOWN", up |-> 1, total |-> 4, price_change |-> -1]}

MomCalls ==
  {[historicalData |-> h, up |-> u, total |-> t, prediction |-> "none"] :
     h \in UNION {[1..n -> MomRows] : n \in 3..MaxHistLen},
     u \in 0..MaxMomTotal, t \in 1..MaxMomTotal}

InitMomentum ==
  /\ SyncIdle /\ TraderIdle /\ IngestIdle /\ AggIdle /\ LsnIdle /\ ClockIdle
  /\ mom \in {c \in MomCalls : c.up <= c.total}

MomentumCall ==
  /\ mom.prediction = "none"
  /\ mom' = [mom EXCEPT !.prediction =
               calculateMomentumPrediction(mom.historicalData, mom.up, mom.total)]

MomOnly == UNCHANGED <<syncVars, traderVars, ingestVars, aggVars, lsnVars, clockVars, estVars>>

NextMomentum == MomentumCall /\ MomOnly

SpecMomentum == InitMomentum /\ [][NextMomentum]_vars

----------------------------------------------------------------------------
\* The chain listener of realbet.js: BettingListenerService.  A socket that is
\* "open" with no heartbeat interval is one whose connect() still awaits
\* getNetwork().

MaxDisconnections == 3   \* closes, failed heartbeat reads and heartbeat timeouts
MaxOutages == 2          \* times the endpoint becomes unreachable

HEARTBEAT_MS == 60000
HEARTBEAT_TIMEOUT_MS == 120000
MaxBeatAge == 180000     \* ages above the timeout are not told apart

\* scheduleReconnect(): the value of this.reconnectTimeout after the call.
scheduleReconnect(rt) == IF rt # "null" THEN rt ELSE "pending"

Noticed == [lsnCount EXCEPT !.disconnections = @ + 1]

\* listenerService.connect() of the main line.
Connect ==
  /\ lsnCount.connects = 0 /\ wsState = "null"
  /\ wsState' = "connecting"
  /\ lsnCount' = [lsnCount EXCEPT !.connects = 1]
  /\ UNCHANGED <<isConnected, reconnectTimeout, heartbeatInterval, beatAge, endpoint>>

\* websocket.on('open').
SocketOpen ==
  /\ wsState = "connecting" /\ endpoint
  /\ wsState' = "open"
  /\ isConnected' = TRUE
  /\ beatAge' = 0
  /\ reconnectTimeout' = "null"
  /\ UNCHANGED <<heartbeatInterval, endpoint, lsnCount>>

\* connect() resumes after getNetwork() and calls startHeartbeat().
NetworkResolved ==
  /\ wsState = "open" /\ ~heartbeatInterval
  /\ heartbeatInterval' = TRUE
  /\ UNCHANGED <<wsState, isConnected, reconnectTimeout, beatAge, endpoint, lsnCount>>

\* websocket.on('close'); a connect() that awaits getNetwork() on this socket
\* ends in its catch block, which calls scheduleReconnect() as well.
SocketClose ==
  /\ wsState \in {"connecting", "open"}
  /\ lsnCount.disconnections < MaxDisconnections
  /\ wsState' = "closed"
  /\ isConnected' = FALSE
  /\ reconnectTimeout' = scheduleReconnect(reconnectTimeout)
  /\ lsnCount' = Noticed
  /\ UNCHANGED <<heartbeatInterval, beatAge, endpoint>>

\* One tick of the interval of startHeartbeat; read is what getBlockNumber()
\* does: "ok", "fail" (rejects) or "hang" (still pending at the next tick).
\* The 5 s reconnect timer fires before the next 60 s tick.
Heartbeat(read) ==
  /\ heartbeatInterval /\ reconnectTimeout # "pending"
  /\ LET age == Min({beatAge + HEARTBEAT_MS, MaxBeatAge}) IN
       IF age > HEARTBEAT_TIMEOUT_MS
       THEN /\ lsnCount.disconnections < MaxDisconnections
            /\ read = "hang"
            /\ beatAge' = age
            /\ reconnectTimeout' = scheduleReconnect(reconnectTimeout)
            /\ lsnCount' = Noticed
       ELSE CASE read = "ok" ->
                   /\ wsState = "open" /\ endpoint
                   /\ beatAge' = 0
                   /\ UNCHANGED <<reconnectTimeout, lsnCount>>
              [] read = "fail" ->
                   /\ lsnCount.disconnections < MaxDisconnections
                   /\ beatAge' = age
                   /\ reconnectTimeout' = scheduleReconnect(reconnectTimeout)
                   /\ lsnCount' = Noticed
              [] OTHER ->
                   /\ beatAge' = age
                   /\ UNCHANGED <<reconnectTimeout, lsnCount>>
  /\ UNCHANGED <<wsState, isConnected, heartbeatInterval, endpoint>>

\* contract.on("BetBull") / contract.on("BetBear"): confirmed activity.
OnChainBet ==
  /\ wsState = "open" /\ beatAge > 0
  /\ beatAge' = 0
  /\ UNCHANGED <<wsState, isConnected, reconnectTimeout, heartbeatInterval, endpoint,
                 lsnCount>>

\* The callback of the timer of scheduleReconnect: disconnect(), connect().
\* The callback leaves this.reconnectTimeout holding the spent handle.
ReconnectTimer ==
  /\ reconnectTimeout = "pending"
  /\ reconnectTimeout' = "fired"
  /\ heartbeatInterval' = FALSE
  /\ isConnected' = FALSE
  /\ wsState' = "connecting"
  /\ lsnCount' = [lsnCount EXCEPT !.connects = @ + 1]
  /\ UNCHANGED <<beatAge, endpoint>>

EndpointDown ==
  /\ endpoint /\ lsnCount.outages < MaxOutages
  /\ endpoint' = FALSE
  /\ lsnCount' = [lsnCount EXCEPT !.outages = @ + 1]
  /\ UNCHANGED <<wsState, isConnected, reconnectTimeout, heartbeatInterval, beatAge>>

EndpointUp ==
  /\ ~endpoint
  /\ endpoint' = TRUE
  /\ UNCHANGED <<wsState, isConnected, reconnectTimeout, heartbeatInterval, beatAge,
                 lsnCount>>

InitListener == SyncIdle /\ TraderIdle /\ IngestIdle /\ AggIdle /\ MomIdle /\ LsnIdle /\ ClockIdle

LsnOnly == UNCHANGED <<syncVars, traderVars, ingestVars, aggVars, momVars, clockVars, estVars>>

NextListener ==
  \/ Connect /\ LsnOnly
  \/ SocketOpen /\ LsnOnly
  \/ NetworkResolved /\ LsnOnly
  \/ SocketClose /\ LsnOnly
  \/ \E read \in {"ok", "fail", "hang"} : Heartbeat(read) /\ LsnOnly
  \/ OnChainBet /\ LsnOnly
  \/ ReconnectTimer /\ LsnOnly
  \/ EndpointDown /\ LsnOnly
  \/ EndpointUp /\ LsnOnly

\* The event loop runs every callback that is due and a reachable endpoint
\* answers: the program's own steps are weakly fair, the environment's
\* (closes, outages, bets) are not.
ListenerFairness ==
  /\ WF_vars(Connect /\ LsnOnly)
  /\ WF_vars(SocketOpen /\ LsnOnly)
  /\ WF_vars(NetworkResolved /\ LsnOnly)
  /\ WF_vars(ReconnectTimer /\ LsnOnly)
  /\ WF_vars(EndpointUp /\ LsnOnly)

SpecListener == InitListener /\ [][NextListener]_vars /\ ListenerFairness

----------------------------------------------------------------------------
\* Properties of the aggregator

\* The final = true predictions published for epoch e.
Finals(e) == {i \in DOMAIN published : published[i].epoch = e /\ published[i].final}

\* C10: for an epoch whose round update arrives before lock_time -
\* FINAL_ADVANCE_MS, whatever bets and round updates arrive during the epoch,
\* no second prediction with final = true is published.
C10_OneFinalPerEpoch ==
  \A e \in aggEarly : Cardinality(Finals(e)) <= 1

\* C15: within one epoch the versions of the predictions published on
\* live_predictions strictly increase in publication order, for any sequence
\* of bets and round updates.
C15_VersionsIncrease ==
  \A i, j \in DOMAIN published :
    (i < j /\ published[i].epoch = published[j].epoch)
    => published[i].version < published[j].version

\* The step handles a message of instant_bet_channel carrying a bet of epoch e.
BetReceived(e) == aggCount' = aggCount + 1 /\ unstored'[e] # unstored[e]

\* C21: a bet message whose epoch is older than the aggregator's current
\* epoch leaves the whole aggregator state unchanged (epoch, sums, version,
\* last emitted values, history features, final timer, pending timers and
\* handlers) and nothing is published.
C21_OldBetDropped ==
  [][\A e \in AggEpochs :
       (BetReceived(e) /\ liveAgg.epoch # 0 /\ e < liveAgg.epoch)
       => UNCHANGED <<liveAgg, published, timers, aggTasks>>]_vars

C21_Witness ==
  aggStale > 0 /\ liveAgg.epoch = 2 /\ liveAgg.total > 0 /\ unstored[1].up > 0

\* The message published in this step, if any.
Emitted == Len(published') > Len(published)
LastEmitted == published'[Len(published')]

\* C22: when fewer than 3 finalized rounds are available for the epoch of a
\* published prediction, or the aggregator holds no historical rows because
\* the trend query failed, the prediction is UP if up_ratio >= 0.5 and DOWN
\* otherwise.
C22_FallbackWithoutHistory ==
  [][Emitted =>
       ((Len(HistRows(LastEmitted.epoch)) < 3 \/ liveAgg.histRows = <<>>)
        => LastEmitted.prediction =
             IF 2 * LastEmitted.up >= LastEmitted.total THEN "UP" ELSE "DOWN")]_vars

\* C23: within one epoch, any two predictions published without force and
\* without final are at least 3 s apart, also when a bet is handled while the
\* handler of an earlier bet still awaits its publish.
C23_LiveRevisionsSpaced ==
  \A i, j \in DOMAIN published :
    (i < j /\ published[i].epoch = published[j].epoch
       /\ ~published[i].final /\ ~published[j].final)
    => published[j].ts - published[i].ts >= publishIntervalMs

\* C24: the aggregator's current epoch never decreases, and its per-epoch
\* state is reset (the version counter falls back) only in a step that moves
\* it to a newer epoch: a round update of the current or of an older epoch
\* resets nothing.
C24_ResetOnlyOnNewerEpoch ==
  [][/\ liveAgg'.epoch >= liveAgg.epoch
     /\ liveAgg'.version < liveAgg.version => liveAgg'.epoch > liveAgg.epoch]_vars

\* C25: within an epoch the aggregator's up and down sums are sums of bets
\* of that epoch, each counted once: a sum never exceeds the amount of all
\* bets of the epoch on that side (stored or not), and while the epoch stays
\* current no sum decreases, also when a re-seed from the table overlaps
\* with bets being handled.
C25_EachBetCountedOnce ==
  [][/\ liveAgg'.epoch # 0 =>
          /\ liveAgg'.up <= aggBets'[liveAgg'.epoch].up + unstored'[liveAgg'.epoch].up
          /\ liveAgg'.down <= aggBets'[liveAgg'.epoch].down + unstored'[liveAgg'.epoch].down
     /\ liveAgg'.epoch = liveAgg.epoch =>
          liveAgg'.up >= liveAgg.up /\ liveAgg'.down >= liveAgg.down]_vars

\* The handler task resumes in this step after an await that it started when
\* another epoch was current: a publish or a re-seed of an epoch that has
\* been replaced since.
ResumesStale(task) ==
  /\ task.pc \in {"published", "seedRound", "seedBet"}
  /\ CopiesIn(task, aggTasks') < CopiesIn(task, aggTasks)
  /\ task.epoch < liveAgg.epoch

\* C26: a new-epoch reset is atomic: once the state has been replaced for
\* epoch E, a publish or a re-seed that started for a previous epoch and
\* completes after the reset writes no field of the state of E.
C26_ResetIsAtomic ==
  [][\A task \in BagToSet(aggTasks) : ResumesStale(task) => liveAgg' = liveAgg]_vars

\* The step adds a live bet of the current epoch e to the sums and evaluates
\* the emission: the bet is handled at once, or after the initEpochContext it
\* started.
BetCounted(e) ==
  /\ liveAgg.epoch = e /\ liveAgg'.epoch = e
  /\ \/ BetReceived(e)
     \/ \E task \in BagToSet(aggTasks) :
          /\ task.pc = "count" /\ task.epoch = e
          /\ CopiesIn(task, aggTasks') < CopiesIn(task, aggTasks)

\* The emissions of epoch e so far.
EmissionsOf(e) == {i \in DOMAIN published : published[i].epoch = e}

\* The new sums are a revision of the emitted message last: up_ratio moved by
\* at least 0.03, or crossed 0.5, or the volume bucket changed.
IsRevision(last) ==
  LET up == liveAgg'.up
      total == liveAgg'.total
  IN \/ 100 * Abs(up * last.total - last.up * total) >= 3 * total * last.total
     \/ 2 * last.up < last.total /\ 2 * up >= total
     \/ 2 * last.up > last.total /\ 2 * up <= total
     \/ getVolumeBucket(total, liveAgg.avgHistVolume) # last.bucket

\* C27: on a live bet of the current epoch handled at least 3 s after the
\* last emission of the epoch, a revision is emitted if and only if, relative
\* to the values emitted last, up_ratio moved by at least 0.03, or crossed
\* 0.5, or the volume bucket changed; the first evaluation of an epoch (no
\* emission yet, the total positive with the bet) always emits.
C27_EmitsExactlyOnRevision ==
  [][\A e \in AggEpochs :
       BetCounted(e) =>
         IF EmissionsOf(e) = {}
           THEN Emitted
           ELSE LET last == published[Max(EmissionsOf(e))]
                IN aggNow - last.ts >= publishIntervalMs
                     => (Emitted <=> IsRevision(last))]_vars

\* C28: with at least 3 historical rounds the momentum prediction is UP when
\* the up score is greater than the down score, DOWN when it is smaller, and
\* on equal scores UP exactly when up_ratio >= 0.5 (so equal scores with
\* up_ratio = 0.5 give UP).
C28_MomentumDecision ==
  (mom.prediction # "none" /\ Len(mom.historicalData) >= 3) =>
    LET score == Scores(mom.historicalData, mom.up, mom.total)
    IN mom.prediction =
         IF score.up > score.down THEN "UP"
         ELSE IF score.up < score.down THEN "DOWN"
         ELSE IF 2 * mom.up >= mom.total THEN "UP" ELSE "DOWN"

\* C29: every bet transaction for an epoch is handed to the chain at a time
\* t with t_send - 1000 <= t < t_stop - 100 (t_stop = lock_ms - buffer_s *
\* 1000, t_send = t_stop - delta_ms), and a final prediction whose handling
\* finds the clock at or after t_stop - 100 ends there: no timer, no check of
\* the ledger, no placement.
C29_SentInsideWindow ==
  [][/\ \A x \in txs' \ txs :
          /\ tSendOf(x.epoch) - 1000 <= trNow
          /\ trNow < getEpochMeta(x.epoch).tStop - 100
     /\ \A task \in Running :
          (/\ task.pc = "window"
           /\ trNow >= getEpochMeta(task.sig.epoch).tStop - 100
           /\ CopiesIn(task, trTasks') < CopiesIn(task, trTasks))
          => /\ trTasks' = trTasks (-) SetToBag({task})
             /\ UNCHANGED <<placed, trTimers, txs, trLog>>]_vars

\* C30: for every epoch at most one arming takes place (at most one arm
\* record is logged, each written together with armed[epoch]), also when
\* several strong non-final predictions of the epoch are handled
\* concurrently, and no arming carries a time at or after t_stop - delta_ms
\* - 500.
C30_OneArmingPerEpoch ==
  [][\A e \in TrEpochs :
       /\ CountRows(trLog', e, {"arm"}) <= 1
       /\ (armed'[e] # armed[e] /\ armed'[e] # NoArm)
            => armed'[e].ts < tSendOf(e) - 500]_vars

\* C31: handling a prediction whose final flag is not true never submits a
\* transaction, never writes a final_dryrun or final_sent record, never
\* changes placed and sets no timer; all it can change is the arming entry
\* of its epoch, with one arm record.
C31_NonFinalOnlyArms ==
  [][\A task \in Running :
       (~task.sig.final /\ CopiesIn(task, trTasks') < CopiesIn(task, trTasks))
       => /\ UNCHANGED <<txs, placed, ledger, trTimers>>
          /\ \A e \in TrEpochs :
               /\ CountRows(trLog', e, {"final_dryrun", "final_sent", "final_receipt"})
                    = CountRows(trLog, e, {"final_dryrun", "final_sent", "final_receipt"})
               /\ e # task.sig.epoch => armed'[e] = armed[e]
               /\ CountRows(trLog', e, {"arm"}) - CountRows(trLog, e, {"arm"}) \in {0, 1}
               /\ armed'[e] # armed[e] => CountRows(trLog', e, {"arm"}) > CountRows(trLog, e, {"arm"})]_vars

C31_Witness ==
  /\ armed[1] # NoArm /\ CountRows(trLog, 1, {"arm"}) = 1
  /\ txs = {} /\ placed = {} /\ trTasks = EmptyBag /\ trCount.signals = 1

\* C16: in a flush no message is acknowledged and no analysis request is
\* published for a bet before the transaction that inserts the bet has
\* committed, and the analysis requests of a batch are published only after
\* all messages of the batch are acknowledged.
C16_CommitThenAckThenPublish ==
  [][/\ \A i \in pel \ pel' : Stored(i)
     /\ \A i \in analysis' \ analysis :
          Stored(i) /\ Range(batchBuffer) \cap pel = {}]_vars

C16_Witness ==
  \E i \in analysis : Stored(i) /\ i \notin pel /\ Len(batchBuffer) = 0 /\ cpc = "read"

\* The keys of the batch that the live table holds already, or that an earlier
\* message of the same batch carries.
Replayed ==
  {i \in Range(batchBuffer) :
     \/ \E r \in realbetLive : r.key = stream[i].bet
     \/ \E k \in Range(batchBuffer) : k < i /\ stream[k].bet = stream[i].bet}

\* C17: flushing a message whose bet (bet_time, tx_hash) is stored already
\* leaves the rows of the live table as they are, raises no error and ends
\* with the message acknowledged, also when the batch holds new bets too.
C17_ReplayIsNoop ==
  [][/\ (cpc = "flush" /\ dbMode = "ok" /\ cpc' \notin {"flush", "down"}) =>
          /\ cpc' = "ack"
          /\ realbetLive \subseteq realbetLive'
          /\ \A r \in realbetLive' \ realbetLive : r.msg \notin Replayed
          /\ \A r, q \in realbetLive' : r.key = q.key => r = q
     /\ (cpc = "ack" /\ cpc' \notin {"ack", "down"}) =>
          cpc' = "publish" /\ Range(batchBuffer) \cap pel' = {}]_vars

\* A batch of a replayed message and a new bet has been flushed and
\* acknowledged.
C17_Witness ==
  /\ cpc = "publish"
  /\ \E i, j \in Range(batchBuffer) :
       /\ i \notin pel /\ j \notin pel
       /\ \E r \in realbetLive : r.key = stream[i].bet /\ r.msg < i
       /\ [key |-> stream[j].bet, msg |-> j] \in realbetLive


\* C32: every step in which the listener notices a disconnection (its socket
\* closes, a heartbeat read fails, or the heartbeat finds more than 120 s
\* without confirmed activity) leaves a reconnect timer pending, also when the
\* socket that closed was the one of a reconnect attempt.
C32_ReconnectAfterEveryDisconnection ==
  [][lsnCount'.disconnections > lsnCount.disconnections
       => reconnectTimeout' = "pending"]_vars

\* Once the endpoint stays reachable the listener is connected again and again.
ListenerEventuallyConnected == <>[]endpoint => []<>isConnected


\* C33: after the process has exited on SIGINT or SIGTERM, no message that the
\* consumer read is left unacknowledged, and every parseable message it read
\* is stored in the live table.
C33_ShutdownDrainsBuffer ==
  cpc = "exited" =>
    /\ pel = {}
    /\ \A i \in 1..lastDelivered : stream[i].valid => Stored(i)


\* C34: once epoch current_epoch - 2, which the forward worker commits less
\* than 600 s after the close of its round, is finalized and at least 600 s
\* past that close, its rows of the live table are eventually deleted.
C34_LiveRowsEventuallyDeleted ==
  (/\ MaxEpoch \in finepoch
   /\ nowS - ChainRound(world, MaxEpoch).closeTimestamp >= REALBET_KEEP_S)
    ~> ({r \in realbet : r.epoch = MaxEpoch} = {})


\* C36: the backward worker eventually reaches epoch 1: every epoch below the
\* seed is eventually finalized or at the retry cap, also when the epoch just
\* below the stored minimum is at the retry cap.
C36_BackwardReachesEpochOne ==
  (pc["down1"] # "off") ~>
    (\A e \in 1..(SeedEpoch - 1) :
       e \in finepoch \/ getFailCount(failed_epochs, e) >= RETRY_MAX)


\* The epochs between the lowest and the highest stored one that have no row.
StoreGaps(h) ==
  LET b == getDataBoundaries(h) IN
  {e \in b.min_epoch..b.max_epoch : EpochRows(h, e) = {}}

\* C35: a gap scan that finds fewer distinct epochs than max - min + 1 hands
\* the loop over the syncs every missing epoch of [min_epoch, max_epoch]
\* exactly once (fewer than 100 are missing here), the epochs inside a run of
\* consecutive missing epochs included.
C35_GapScanListsEveryMissingOnce ==
  [][\A t \in Threads :
       (Kind(t) = "gap" /\ pc[t] = "loop" /\ pc'[t] = "for")
       => /\ Range(queue'[t]) = StoreGaps(hisbet)
          /\ Len(queue'[t]) = Cardinality(StoreGaps(hisbet))]_vars


\* Worker t calls syncEpoch in this step.
Invokes(t) == pc[t] \in {"loop", "for"} /\ pc'[t] = "sync"

\* C37: every epoch a worker invokes the sync for lies in
\* [1, current_epoch - 2]: the forward worker's above the stored maximum of the
\* start and up to its target current_epoch - 2, the backward worker's is
\* min_epoch - 1, the gap worker's lies between min_epoch and max_epoch; and no
\* epoch above current_epoch - 2 has a finalized marker.
C37_SyncedEpochsInRange ==
  /\ [][\A t \in Threads :
          Invokes(t) =>
            LET b == getDataBoundaries(hisbet) IN
            /\ 1 <= ep'[t] /\ ep'[t] <= currentEpoch - 2
            /\ Kind(t) = "up" => /\ SeedEpoch < ep'[t]
                                 /\ ep'[t] <= tgt[t] /\ tgt[t] = currentEpoch - 2
            /\ Kind(t) = "down" => ep'[t] = b.min_epoch - 1
            /\ Kind(t) = "gap" => b.min_epoch < ep'[t] /\ ep'[t] < b.max_epoch]_vars
  /\ [](\A e \in finepoch : 1 <= e /\ e <= currentEpoch - 2)

C37_Witness ==
  /\ pc["up1"] = "release" /\ ep["up1"] = currentEpoch - 2
  /\ (currentEpoch - 2) \in finepoch


\* The stored bets of epoch x, and the epochs of [lo, hi] with more than 5.
BetsOf(h, x) == {r \in h : r.epoch = x}
Anchors(h, lo, hi) == {x \in lo..hi : Cardinality(BetsOf(h, x)) > 5}
FirstBlock(h, x) == CHOOSE b \in {r.block_number : r \in BetsOf(h, x)} :
                      \A r \in BetsOf(h, x) : b <= r.block_number
LastBlock(h, x) == CHOOSE b \in {r.block_number : r \in BetsOf(h, x)} :
                     \A r \in BetsOf(h, x) : b >= r.block_number

\* blocks_per_epoch at anchor a: the largest last-block difference between
\* consecutive epochs of [a - 10, a] with more than 5 bets each, 410 if none.
BlocksPerEpoch(h, a) ==
  LET pairs == {x \in Anchors(h, a - 10, a) : x - 1 \in Anchors(h, a - 10, a)}
      diff(x) == LastBlock(h, x) - LastBlock(h, x - 1)
  IN IF pairs = {} THEN 410
     ELSE diff(CHOOSE x \in pairs : \A y \in pairs : diff(x) >= diff(y))

\* C38: the range returned for epoch E on store h is the one of the smallest
\* epoch of [E+1, E+5] with more than 5 bets, and only when there is none the
\* one of the largest such epoch of [E-5, E-1], with the bounds the claim
\* gives; with no such epoch the call fails.
C38_EstimatorIsTheStatedFunction ==
  est.done =>
    LET h == est.hisbet
        E == est.epoch
        fwd == Anchors(h, E + 1, E + 5)
        bwd == Anchors(h, E - 5, E - 1)
    IN IF fwd # {}
       THEN LET a == CHOOSE x \in fwd : \A y \in fwd : x <= y IN
            est.range = <<TRUE, FirstBlock(h, a) - BlocksPerEpoch(h, a) * (a - E) - 50,
                          FirstBlock(h, a) + 50>>
       ELSE IF bwd # {}
       THEN LET a == CHOOSE x \in bwd : \A y \in bwd : x >= y IN
            est.range = <<TRUE, LastBlock(h, a) - 50,
                          LastBlock(h, a) + BlocksPerEpoch(h, a) * (E - a) + 50>>
       ELSE ~est.range[1]

\* A call with anchors on both sides, the forward one not adjacent, and a
\* measured blocks_per_epoch.
C38_Witness ==
  /\ est.done /\ est.range[1]
  /\ Anchors(est.hisbet, est.epoch + 1, est.epoch + 1) = {}
  /\ Anchors(est.hisbet, est.epoch + 2, est.epoch + 5) # {}
  /\ Anchors(est.hisbet, est.epoch - 5, est.epoch - 1) # {}
  /\ \E a \in Epochs : a > est.epoch /\ BlocksPerEpoch(est.hisbet, a) # 410


\* No epoch with more than 5 stored bets within 5 epochs of E
NoAnchor(h, E) == Anchors(h, E + 1, E + 5) = {} /\ Anchors(h, E - 5, E - 1) = {}

\* C39: a sync of an epoch without an anchor epoch within 5 epochs ends with
\* the error of the estimator and writes no round, bet, claim or marker row;
\* a pipeline started on an empty store never finalizes an epoch, and every
\* sync it finished failed.
C39_NoAnchorSyncFails ==
  /\ [][\A t \in Threads :
          (pc[t] = "fetch" /\ pc'[t] # "fetch" /\ NoAnchor(hisbet, ep[t])) =>
            /\ res'[t] = "error" /\ err'[t].stage = "range"
            /\ pc'[t] = "release"
            /\ failedSyncs'[ep[t]] = failedSyncs[ep[t]] + 1
            /\ UNCHANGED <<round, hisbet, claim, multi_claim, finepoch>>]_vars
  /\ [](world = "ok" =>
          /\ finepoch = {} /\ round = {} /\ hisbet = {}
          /\ \A t \in Threads : res[t] \in {"none", "error", "locked"}
          /\ \A t \in Threads : ~wrote[t])

\* On the empty store the forward worker's first sync, of epoch 1, has failed
\* with the estimator's error.
C39_Witness ==
  /\ world = "ok" /\ hisbet = {}
  /\ pc["up1"] = "release" /\ ep["up1"] = 1
  /\ res["up1"] = "error" /\ err["up1"].stage = "range"
  /\ failedSyncs[1] = 1


====
